---- MODULE Spec2Model ----
(***************************************************************************)
(* A model of the rustler file service: the retrieval handler              *)
(* (view_codebase_handler), the archive detector and the two extraction    *)
(* strategies of FileService, the Redis-backed cache and the S3 object     *)
(* store, with every request an independently scheduled task.              *)
(***************************************************************************)
EXTENDS Integers, Sequences, FiniteSets, TLC

(***************************************************************************)
(* Bounds of the model.                                                    *)
(***************************************************************************)
\* number of retrieval requests a behaviour issues (they may overlap)
NumRequests == 2
\* number of environment faults (failed I/O calls) a behaviour may suffer
MaxFaults == 1

Requests == 1..NumRequests

\* the bundle names callers ask for
Names == {"demo"}

(***************************************************************************)
(* Strings and paths.                                                      *)
(***************************************************************************)
\* str::ends_with
EndsWith(s, suffix) ==
    /\ Len(s) >= Len(suffix)
    /\ SubSeq(s, Len(s) - Len(suffix) + 1, Len(s)) = suffix

\* the components of a path joined with the separator
RECURSIVE JoinComponents(_)
JoinComponents(comps) ==
    IF comps = <<>> THEN ""
    ELSE IF Len(comps) = 1 THEN comps[1]
    ELSE comps[1] \o "/" \o JoinComponents(Tail(comps))

\* Path::join of a directory and a path given by its components; a path that
\* starts at the root (the component "/") replaces the directory
PathJoin(dir, comps) ==
    IF comps # <<>> /\ comps[1] = "/" THEN "/" \o JoinComponents(Tail(comps))
    ELSE dir \o "/" \o JoinComponents(comps)

\* format!("./competitions/{}", name)
OutputDir(name) == "./competitions/" \o name

\* the canonical suffix of each archive format
ZipSuffix == ".zip"
TarGzSuffix == ".tar.gz"

\* the temporary download of each strategy, inside the output directory
ZipTempPath(dir) == PathJoin(dir, <<"temp.zip">>)
TarTempPath(dir) == PathJoin(dir, <<"temp.tar.gz">>)

TempPaths == {ZipTempPath(OutputDir(n)) : n \in Names}
                 \cup {TarTempPath(OutputDir(n)) : n \in Names}

(***************************************************************************)
(* Archives held by the object store.  A zip archive is the sequence of    *)
(* its entries in stored order; an entry carries the components of its     *)
(* embedded name and whether it is a directory.                            *)
(***************************************************************************)
S3Keys == {n \o ZipSuffix : n \in Names} \cup {n \o TarGzSuffix : n \in Names}

\* archives whose entry names climb out of the directory or start at the root,
\* and one with an entry named as the temporary download is
HostileKeys == {"dotdot.zip", "absolute.zip", "mixed.zip", "nested.zip", "clash.zip"}

\* size: the length of the entry's stored data
ZipEntriesOf(key) ==
    IF key = "dotdot.zip"
    THEN << [name |-> <<"..", "etc">>, isDir |-> TRUE, size |-> 0],
            [name |-> <<"..", "..", "etc", "passwd">>, isDir |-> FALSE, size |-> 1] >>
    ELSE IF key = "absolute.zip"
    THEN << [name |-> <<"/", "tmp">>, isDir |-> TRUE, size |-> 0],
            [name |-> <<"/", "tmp", "x">>, isDir |-> FALSE, size |-> 1] >>
    ELSE IF key = "mixed.zip"
    THEN << [name |-> <<"a", "..", "..", "b.txt">>, isDir |-> FALSE, size |-> 1],
            [name |-> <<"..">>, isDir |-> FALSE, size |-> 1] >>
    ELSE IF key = "nested.zip"
    THEN << [name |-> <<"a", "..", "..", "up">>, isDir |-> TRUE, size |-> 0],
            [name |-> <<"a", "..", "..", "up", "f">>, isDir |-> FALSE, size |-> 1],
            [name |-> <<"/", "..", "a", ".", "up", "g">>, isDir |-> FALSE, size |-> 1] >>
    ELSE IF key = "clash.zip"
    THEN << [name |-> <<"a.txt">>, isDir |-> FALSE, size |-> 1],
            [name |-> <<"temp.zip">>, isDir |-> FALSE, size |-> 0],
            [name |-> <<"b.txt">>, isDir |-> FALSE, size |-> 1] >>
    ELSE << [name |-> <<"a">>, isDir |-> TRUE, size |-> 0],
            [name |-> <<"a", "b.txt">>, isDir |-> FALSE, size |-> 1] >>

\* what the tar utility unpacks from the archive stored under key
TarFilesOf(key) ==
    IF key = "...tar.gz" THEN <<>>
    ELSE IF key = "a/../b.tar.gz" THEN <<"x", "y">>
    ELSE <<"README.md">>

\* the embedded name taken as it is (ZipFile::name)
EmbeddedName(comps) == comps

\* ZipFile::mangled_name keeps the normal components of the embedded name
IsNormalComponent(c) == c \notin {"..", ".", "/", ""}
MangledName(comps) == SelectSeq(comps, IsNormalComponent)

\* the single entry the tar.gz strategy reports
TarMarker == "Extracted files successfully."

(***************************************************************************)
(* The cache payload: the result sequence as a JSON array of strings.      *)
(***************************************************************************)
Quote == "\""
Backslash == "\\"

RECURSIVE EscapeFrom(_, _)
EscapeFrom(s, i) ==
    IF i > Len(s) THEN ""
    ELSE LET c == SubSeq(s, i, i)
         IN  (IF c = Quote \/ c = Backslash THEN Backslash \o c ELSE c)
                 \o EscapeFrom(s, i + 1)

RECURSIVE JoinQuoted(_)
JoinQuoted(paths) ==
    IF paths = <<>> THEN ""
    ELSE Quote \o EscapeFrom(paths[1], 1) \o Quote
            \o (IF Len(paths) > 1 THEN "," ELSE "")
            \o JoinQuoted(Tail(paths))

\* Vec<String> to its string payload
Serialize(paths) == "[" \o JoinQuoted(paths) \o "]"

\* scan the payload from position i; cur is the string being read, or the
\* empty sequence outside a string literal
RECURSIVE ParseFrom(_, _, _, _)
ParseFrom(s, i, acc, cur) ==
    IF i > Len(s) THEN acc
    ELSE LET c == SubSeq(s, i, i)
         IN  IF cur = <<>>
             THEN IF c = Quote THEN ParseFrom(s, i + 1, acc, <<"">>)
                  ELSE ParseFrom(s, i + 1, acc, cur)
             ELSE IF c = Backslash
                  THEN ParseFrom(s, i + 2, acc, <<cur[1] \o SubSeq(s, i + 1, i + 1)>>)
                  ELSE IF c = Quote
                       THEN ParseFrom(s, i + 1, Append(acc, cur[1]), <<>>)
                       ELSE ParseFrom(s, i + 1, acc, <<cur[1] \o c>>)

\* the string payload back to the result sequence
Deserialize(payload) == ParseFrom(payload, 1, <<>>, <<>>)

(***************************************************************************)
(* File types (file_utils.rs).  Bytes are the integers 0..255 and a byte    *)
(* string is a sequence of them.                                            *)
(***************************************************************************)
\* the upper-case ASCII letters and their lower-case forms
UpperCase == "ABCDEFGHIJKLMNOPQRSTUVWXYZ"
LowerCase == "abcdefghijklmnopqrstuvwxyz"

\* u8::to_ascii_lowercase, as a table from each upper-case letter
LowerOf ==
    [c \in {SubSeq(UpperCase, i, i) : i \in 1..Len(UpperCase)} |->
        LET i == CHOOSE k \in 1..Len(UpperCase) : SubSeq(UpperCase, k, k) = c
        IN  SubSeq(LowerCase, i, i)]
LowerChar(c) == IF c \in DOMAIN LowerOf THEN LowerOf[c] ELSE c

\* str::to_lowercase on ASCII text
RECURSIVE ToLowerFrom(_, _)
ToLowerFrom(s, i) ==
    IF i > Len(s) THEN ""
    ELSE LowerChar(SubSeq(s, i, i)) \o ToLowerFrom(s, i + 1)
ToLower(s) == ToLowerFrom(s, 1)

\* str::eq_ignore_ascii_case
EqIgnoreAsciiCase(a, b) == ToLower(a) = ToLower(b)

\* s.split('.').last(): the text after the last dot, all of s when it has none
RECURSIVE LastSegmentFrom(_, _)
LastSegmentFrom(s, i) ==
    IF i = 0 THEN s
    ELSE IF SubSeq(s, i, i) = "." THEN SubSeq(s, i + 1, Len(s))
    ELSE LastSegmentFrom(s, i - 1)
LastSegment(s) == LastSegmentFrom(s, Len(s))

\* the largest size in bytes a file type allows, scaled down from the 10 MB
\* and 100 MB of the built-in types
MaxSizeBytes == 8

\* [u8]::starts_with
StartsWith(data, magic) ==
    /\ Len(data) >= Len(magic)
    /\ SubSeq(data, 1, Len(magic)) = magic

\* FileType::new
FileType(name, extensions, content_types, magic_numbers, max_size) ==
    [name |-> name, extensions |-> extensions, content_types |-> content_types,
     magic_numbers |-> magic_numbers, max_size |-> max_size]

ZipMagic == <<80, 75, 3, 4>>
PngMagic == <<137, 80, 78, 71, 13, 10, 26, 10>>
JpegMagic0 == <<255, 216, 255, 224>>
JpegMagic1 == <<255, 216, 255, 225>>

\* the types register_default_types registers
ZipType == FileType("ZIP", <<"zip">>, <<"application/zip">>, <<ZipMagic>>, MaxSizeBytes)
PngType == FileType("PNG", <<"png">>, <<"image/png">>, <<PngMagic>>, MaxSizeBytes)
JpegType ==
    FileType("JPEG", <<"jpg", "jpeg">>, <<"image/jpeg">>, <<JpegMagic0, JpegMagic1>>,
             MaxSizeBytes)
DefaultTypes == {ZipType, PngType, JpegType}

\* types a caller may add with register_file_type: one listing the compound
\* extension, one listing gz alone, one with no magic number
GzipMagic == <<31, 139>>
TarGzType ==
    FileType("TARGZ", <<"tar.gz">>, <<"application/gzip">>, <<GzipMagic>>, MaxSizeBytes)
GzType == FileType("GZ", <<"gz">>, <<"application/gzip">>, <<GzipMagic>>, MaxSizeBytes)
TextType == FileType("TEXT", <<"txt">>, <<"text/plain">>, <<>>, MaxSizeBytes)
ExtraTypes == {TarGzType, GzType, TextType}

\* register_file_type: file_types.insert(file_type.name, file_type)
RegisterFileType(types, file_type) ==
    {t \in types : t.name # file_type.name} \cup {file_type}

\* FileType::validate_extension
ValidateExtension(file_type, filename) ==
    LET extension == LastSegment(filename)
    IN  \E i \in 1..Len(file_type.extensions) :
            EqIgnoreAsciiCase(file_type.extensions[i], extension)

\* FileType::validate_content_type
ValidateContentType(file_type, content_type) ==
    \E i \in 1..Len(file_type.content_types) :
        EqIgnoreAsciiCase(file_type.content_types[i], content_type)

\* FileType::validate_magic_number
ValidateMagicNumber(file_type, data) ==
    IF file_type.magic_numbers = <<>> THEN TRUE
    ELSE \E i \in 1..Len(file_type.magic_numbers) :
            StartsWith(data, file_type.magic_numbers[i])

\* the file types find_file_type_by_extension can return: file_types.values()
\* iterates the HashMap in no fixed order and find takes the first match
FindFileTypeByExtension(types, extension) ==
    {t \in types : ValidateExtension(t, extension)}

(***************************************************************************)
(* State.                                                                  *)
(***************************************************************************)
VARIABLES
    s3,        \* the keys of the objects in the bucket
    dirs,      \* the directories on the local disk
    fileset,   \* the extracted files on the local disk
    tempIno,   \* temporary path -> the file it names (0: no such file)
    inode,     \* file (named by the request that created it) -> content
    cache,     \* the Redis keys: key -> entry
    lastSet,   \* key -> the value of the latest SETEX that succeeded
    dropped,   \* the keys whose entry has expired or been dropped at some time
    faults,    \* environment faults so far
    pc,        \* request -> position in the handler
    rname,     \* request -> the bundle name of its path parameter
    rkey,      \* request -> the storage key detection resolved
    hWrite,    \* request -> the file its write handle is open on
    hRead,     \* request -> the file its read handle is open on
    idx,       \* request -> candidate index, then archive entry index
    files,     \* request -> extracted_files
    resp,      \* request -> the response sent
    hist,      \* request -> what the request has done so far
    objects,         \* key -> the bytes of the object the bucket holds under it
    file_types,      \* FileValidator::file_types, the registered file types
    field,           \* the first multipart field of the upload, if any
    upc,             \* position of the upload in upload_file and validate_file
    file_type_name,  \* the name of the file type validate_file is asked for
    chunks_read,     \* how many chunks of the field have been read
    total_bytes,     \* validate_file: total_bytes
    buffer,          \* validate_file: buffer
    verdict,         \* what validate_file returned
    uresp,           \* the response of the upload
    up,              \* the dependencies that answer their liveness probe
    hpc,             \* position of the health check in perform_health_check
    check_type,      \* the HealthCheckType of the health check
    probed,          \* the probes the health check has run, with their results
    hresp,           \* the response of the health check
    hhist,           \* what the health check read from and wrote to the cache
    age              \* dependency -> seconds since it last passed a probe

vars == <<s3, dirs, fileset, tempIno, inode, cache, lastSet, dropped, faults, pc,
          rname, rkey, hWrite, hRead, idx, files, resp, hist, objects, file_types,
          field, upc, file_type_name, chunks_read, total_bytes, buffer, verdict,
          uresp, up, hpc, check_type, probed, hresp, hhist, age>>

\* the health check and the dependencies it probes
healthVars == <<up, hpc, check_type, probed, hresp, hhist, age>>

\* the upload handler, the only writer of the bucket
validatorVars == <<file_types, field, file_type_name, chunks_read, total_bytes, buffer,
                   verdict>>
uploadVars == <<objects, validatorVars, upc, uresp>>
\* the bucket and what writes to it
storeVars == <<s3, uploadVars, healthVars>>
retrievalVars == <<dirs, fileset, tempIno, inode, cache, lastSet, dropped, faults, pc,
                   rname, rkey, hWrite, hRead, idx, files, resp, hist, healthVars>>
\* the handlers of the file routes
fileVars == <<s3, objects, validatorVars, upc, uresp, dirs, fileset, tempIno, inode,
              faults, pc, rname, rkey, hWrite, hRead, idx, files, resp, hist>>
diskVars == <<dirs, fileset, tempIno, inode>>
cacheVars == <<cache, lastSet, dropped>>
localVars == <<rkey, hWrite, hRead, idx, files>>

(***************************************************************************)
(* The Redis cache.                                                        *)
(***************************************************************************)
\* the expiry of an extraction result, in seconds
FileCacheTtl == 3600
\* the key an extraction result is cached under
FileCacheKey(name) == "file_cache:" \o name

CacheKeys == {FileCacheKey(n) : n \in Names}

\* a key Redis does not hold; writer records which request's SETEX wrote an entry
NoEntry == [present |-> FALSE, value |-> "", ttl |-> 0, writer |-> 0]

\* GET of another key, which Redis never holds
GetOtherKey(c, key) == <<>>

\* GET key: the value as an Option (the empty sequence when the key is not held)
Get(c, key) == IF c[key].present THEN <<c[key].value>> ELSE <<>>

\* SET key value EX ttl NX: an entry already held is kept
SetExIfAbsent(c, key, value, ttl, by) ==
    IF c[key].present THEN c
    ELSE [c EXCEPT ![key] = [present |-> TRUE, value |-> value, ttl |-> ttl, writer |-> by]]

\* SETEX key ttl value, leaving one value under the key whatever it held
SetEx(c, key, value, ttl, by) ==
    [c EXCEPT ![key] = [present |-> TRUE, value |-> value, ttl |-> ttl, writer |-> by]]

(***************************************************************************)
(* Responses.                                                              *)
(***************************************************************************)
StatusOk == 200
StatusInternalError == 500

NoResponse == [status |-> 0, kind |-> "none", body |-> <<>>]
\* (StatusCode::OK, Json(json!({ kind: body })))
OkResponse(kind, body) == [status |-> StatusOk, kind |-> kind, body |-> body]
\* (StatusCode::INTERNAL_SERVER_ERROR, Json(json!({ "error": message })))
ErrorResponse(message) ==
    [status |-> StatusInternalError, kind |-> "error", body |-> <<message>>]

(***************************************************************************)
(* Initial state: a bucket holding any of the archives, an empty local     *)
(* disk, an empty cache and no request started.                            *)
(***************************************************************************)
\* what a request has done: the branch it took, its HEAD and GET calls on the
\* object store, its cache read and cache write, how far extraction got and
\* how its fs::remove_file of the temporary file went
NoHistory ==
    [branch |-> "none", dirAtStart |-> FALSE, cachedAtStart |-> FALSE,
     doneAtStart |-> {}, afterFailed |-> FALSE,
     heads |-> 0, gets |-> 0,
     cacheRead |-> "none", readValue |-> "", readWriter |-> 0,
     mkdirOk |-> FALSE, extracted |-> FALSE, removed |-> "none", stage |-> "none",
     setOk |-> FALSE, setKey |-> "", setValue |-> "", setTtl |-> 0]

\* validate_file has not returned
NoVerdict == [ok |-> FALSE, code |-> 0, message |-> "", bytes |-> <<>>]
\* Ok(buffer)
OkVerdict(bytes) == [ok |-> TRUE, code |-> 0, message |-> "", bytes |-> bytes]
\* Err(FileValidationError { code, message })
ErrVerdict(code, message) ==
    [ok |-> FALSE, code |-> code, message |-> message, bytes |-> <<>>]

\* no upload response yet
NoUploadResponse ==
    [status |-> 0, error |-> "", message |-> "", file_name |-> "", size |-> 0]

(***************************************************************************)
(* The health check: its dependencies, scopes and messages.                *)
(***************************************************************************)
\* the expiry of the cached health status, in seconds
CACHE_EXPIRATION == 60
\* the key the health status is cached under
HealthKey == "health_check_status"
\* the key RedisClient::test_connection sets and reads back
TestKey == "test_key"
HealthKeys == {HealthKey, TestKey}

\* the dependencies, by the name their failure message carries
Dependencies == {"S3", "PostgreSQL", "Redis"}
\* HealthCheckType
CheckTypes == {"All", "S3", "Postgres", "Redis"}

\* HealthCheckType::get_success_message
SuccessMessage(t) ==
    IF t = "All" THEN "All services are healthy"
    ELSE IF t = "S3" THEN "S3 is healthy"
    ELSE IF t = "Postgres" THEN "PostgreSQL is healthy"
    ELSE "Redis is healthy"

\* the calls with the Redis probe moved to the front
ProbeOrderRedisFirst(t) ==
    IF t = "All" THEN <<"Redis", "S3", "PostgreSQL">>
    ELSE IF t = "S3" THEN <<"S3">>
    ELSE IF t = "Postgres" THEN <<"PostgreSQL">>
    ELSE <<"Redis">>

\* the test_connection calls of check_health for a scope, in call order
ProbeOrder(t) ==
    IF t = "All" THEN <<"S3", "PostgreSQL", "Redis">>
    ELSE IF t = "S3" THEN <<"S3">>
    ELSE IF t = "Postgres" THEN <<"PostgreSQL">>
    ELSE <<"Redis">>

\* the text of the error a failed test_connection returns
ProbeError == "connection refused"
\* format!("{} Health Check Failed: {}", dependency, e)
FailureMessage(d) == d \o " Health Check Failed: " \o ProbeError
\* format!("Failed to cache health check status: {}", e)
CacheFailureMessage == "Failed to cache health check status: " \o ProbeError

\* (StatusCode, String)
NoStatus == [status |-> 0, message |-> ""]
HealthStatus(code, message) == [status |-> code, message |-> message]

\* what a health check has done with the cache: the entry it read, if it was
\* a hit, and the entry it wrote, if it wrote one
NoHealthHistory ==
    [hit |-> FALSE, readValue |-> "", setOk |-> FALSE, setValue |-> "",
     setTtl |-> 0]

\* a dependency that has not passed a probe in the last CACHE_EXPIRATION
\* seconds
Stale == -1

\* no health check has run and every dependency answers
NoHealthCheck ==
    /\ up = Dependencies
    /\ hpc = "idle"
    /\ check_type = ""
    /\ probed = <<>>
    /\ hresp = NoStatus
    /\ hhist = NoHealthHistory
    /\ age = [d \in Dependencies |-> Stale]

\* no upload is under way: FileValidator::new() and nothing else
NoUpload ==
    /\ file_types = DefaultTypes
    /\ field = <<>>
    /\ upc = "idle"
    /\ file_type_name = ""
    /\ chunks_read = 0
    /\ total_bytes = 0
    /\ buffer = <<>>
    /\ verdict = NoVerdict
    /\ uresp = NoUploadResponse

\* no retrieval has started, the disk and the cache are empty
NoRetrieval ==
    /\ dirs = {}
    /\ fileset = {}
    /\ tempIno = [p \in TempPaths |-> 0]
    /\ inode = [r \in Requests |-> "none"]
    /\ cache = [k \in CacheKeys |-> NoEntry]
    /\ lastSet = [k \in CacheKeys |-> ""]
    /\ dropped = {}
    /\ faults = 0
    /\ pc = [r \in Requests |-> "idle"]
    /\ rname = [r \in Requests |-> ""]
    /\ rkey = [r \in Requests |-> ""]
    /\ hWrite = [r \in Requests |-> 0]
    /\ hRead = [r \in Requests |-> 0]
    /\ idx = [r \in Requests |-> 0]
    /\ files = [r \in Requests |-> <<>>]
    /\ resp = [r \in Requests |-> NoResponse]
    /\ hist = [r \in Requests |-> NoHistory]

\* the leading bytes of the archive stored under a key
ArchiveBytesOf(key) == IF EndsWith(key, ZipSuffix) THEN ZipMagic ELSE GzipMagic

Init ==
    /\ s3 \in SUBSET S3Keys
    /\ objects = [k \in s3 |-> ArchiveBytesOf(k)]
    /\ NoUpload
    /\ NoRetrieval
    /\ NoHealthCheck

\* an I/O call may fail while the behaviour has faults left
MayFail == faults < MaxFaults

Finished(r) == pc[r] \in {"done", "panicked"}

\* the request ended with an error returned by an extractor
ExtractionStages ==
    {"download", "mkdir", "create", "write", "open", "read", "launch", "exit"}
ExtractionFailed(q) == pc[q] = "done" /\ hist[q].stage \in ExtractionStages

\* the request ends with an error response
Fail(r, stage, message) ==
    /\ pc' = [pc EXCEPT ![r] = "done"]
    /\ resp' = [resp EXCEPT ![r] = ErrorResponse(message)]
    /\ hist' = [hist EXCEPT ![r].stage = stage,
                            ![r].gets = IF stage = "download" THEN @ + 1 ELSE @]

(***************************************************************************)
(* view_codebase_handler: the local-directory check and the LocalPresent   *)
(* branch.                                                                 *)
(***************************************************************************)
\* the check on the wrong path: the bare name, which is never a directory
LocalPresentBareName(name) == name \in dirs

\* fs::metadata(&output_dir).is_ok()
LocalPresent(name) == OutputDir(name) \in dirs

\* a request for bundle n arrives; requests are numbered in arrival order
Start(r, n) ==
    /\ pc[r] = "idle"
    /\ \A q \in Requests : q < r => pc[q] # "idle"
    /\ rname' = [rname EXCEPT ![r] = n]
    /\ pc' = [pc EXCEPT ![r] = IF LocalPresent(n) THEN "get_cached" ELSE "detect"]
    /\ idx' = [idx EXCEPT ![r] = 1]
    /\ hist' = [hist EXCEPT
                  ![r].branch = IF LocalPresent(n) THEN "local" ELSE "remote",
                  ![r].dirAtStart = OutputDir(n) \in dirs,
                  ![r].cachedAtStart = cache[FileCacheKey(n)].present,
                  ![r].doneAtStart = {q \in Requests : Finished(q)},
                  ![r].afterFailed =
                      \E q \in Requests :
                          /\ rname[q] = n
                          /\ hist[q].mkdirOk
                          /\ ExtractionFailed(q)]
    /\ UNCHANGED <<storeVars, diskVars, cacheVars, faults, rkey, hWrite, hRead,
                   files, resp>>

\* file_service.get_cached_file(&name) and the arms for a hit and an error
GetCached(r) ==
    /\ pc[r] = "get_cached"
    /\ LET key == FileCacheKey(rname[r])
           got == Get(cache, key)
       IN  \/ /\ got # <<>>
              /\ pc' = [pc EXCEPT ![r] = "done"]
              /\ resp' = [resp EXCEPT ![r] = OkResponse("file", Deserialize(got[1]))]
              /\ hist' = [hist EXCEPT ![r].cacheRead = "hit",
                                      ![r].readValue = got[1],
                                      ![r].readWriter = cache[key].writer]
              /\ UNCHANGED faults
           \/ /\ got = <<>>
              /\ pc' = [pc EXCEPT ![r] = "backfill"]
              /\ hist' = [hist EXCEPT ![r].cacheRead = "miss"]
              /\ UNCHANGED <<resp, faults>>
           \/ /\ MayFail
              /\ faults' = faults + 1
              /\ pc' = [pc EXCEPT ![r] = "done"]
              /\ resp' = [resp EXCEPT ![r] = ErrorResponse("Failed to retrieve cached file")]
              /\ hist' = [hist EXCEPT ![r].cacheRead = "err"]
    /\ UNCHANGED <<storeVars, diskVars, cacheVars, rname, localVars>>

\* file_service.cache_files(name, files): serialize, then SETEX; ok says
\* whether Redis took the write
CacheFiles(r, paths, ok) ==
    LET key == FileCacheKey(rname[r])
        value == Serialize(paths)
    IN  IF ok
        THEN /\ cache' = SetEx(cache, key, value, FileCacheTtl, r)
             /\ lastSet' = [lastSet EXCEPT ![key] = value]
             /\ UNCHANGED dropped
        ELSE UNCHANGED cacheVars

\* the backfill caches nothing: Vec::new() for vec![output_dir.clone()]
BackfillFilesEmpty(dir) == <<>>

\* vec![output_dir.clone()], the result the Ok(None) arm caches and returns
BackfillFiles(dir) == <<dir>>

\* the Ok(None) arm: cache_files(..).unwrap(), then the response
Backfill(r) ==
    /\ pc[r] = "backfill"
    /\ LET dir == OutputDir(rname[r])
       IN  \/ /\ CacheFiles(r, BackfillFiles(dir), TRUE)
              /\ pc' = [pc EXCEPT ![r] = "done"]
              /\ resp' = [resp EXCEPT ![r] = OkResponse("files", <<dir>>)]
              /\ hist' = [hist EXCEPT ![r].setOk = TRUE,
                                      ![r].setKey = FileCacheKey(rname[r]),
                                      ![r].setValue = cache'[FileCacheKey(rname[r])].value,
                                      ![r].setTtl = cache'[FileCacheKey(rname[r])].ttl]
              /\ UNCHANGED faults
           \/ /\ MayFail
              /\ faults' = faults + 1
              /\ CacheFiles(r, BackfillFiles(dir), FALSE)
              \* unwrap() on Err panics: the task ends without a response
              /\ pc' = [pc EXCEPT ![r] = "panicked"]
              /\ UNCHANGED <<resp, hist>>
    /\ UNCHANGED <<storeVars, diskVars, rname, localVars>>

\* the loss of a cache entry taking the archives of the bucket with it
ExpireWithArchives(k) ==
    /\ cache[k].present
    /\ cache' = [cache EXCEPT ![k] = NoEntry]
    /\ dropped' = dropped \cup {k}
    /\ s3' = {}
    /\ objects' = [key \in {} |-> <<>>]
    /\ UNCHANGED <<validatorVars, upc, uresp, healthVars, diskVars, lastSet, faults,
                   pc, rname, localVars, resp, hist>>

\* the TTL of a cache entry runs out, or Redis drops the entry
Expire(k) ==
    /\ cache[k].present
    /\ cache' = [cache EXCEPT ![k] = NoEntry]
    /\ dropped' = dropped \cup {k}
    /\ UNCHANGED <<storeVars, diskVars, lastSet, faults, pc, rname, localVars,
                   resp, hist>>

(***************************************************************************)
(* The object store and the local file system calls of the extractors.     *)
(***************************************************************************)
\* Ok(_) for any answer to the HEAD, a 404 included
FileExistsOnAnyAnswer(key, headOk) == headOk

\* S3Client::file_exists: HEAD the key; any error reads as absent
FileExists(key, headOk) == headOk /\ key \in s3

\* File::create(path): truncate the file the path names, or create one
CreateFile(r, path) ==
    IF tempIno[path] = 0
    THEN /\ tempIno' = [tempIno EXCEPT ![path] = r]
         /\ inode' = [inode EXCEPT ![r] = "empty"]
         /\ hWrite' = [hWrite EXCEPT ![r] = r]
    ELSE /\ inode' = [inode EXCEPT ![tempIno[path]] = "empty"]
         /\ hWrite' = [hWrite EXCEPT ![r] = tempIno[path]]
         /\ UNCHANGED tempIno

\* file.write_all(&data) through the request's write handle
WriteAll(r) == inode' = [inode EXCEPT ![hWrite[r]] = "full"]

\* fs::remove_file(path); a failure is only logged
RemoveFile(path, ok) ==
    IF ok /\ tempIno[path] # 0
    THEN tempIno' = [tempIno EXCEPT ![path] = 0]
    ELSE UNCHANGED tempIno

\* the directories create_dir_all(dir joined with comps) makes sure exist
DirsCreated(dir, comps) ==
    {dir} \cup {PathJoin(dir, SubSeq(comps, 1, k)) : k \in 1..Len(comps)}

(***************************************************************************)
(* download_and_extract_archive: detection, then dispatch on the key.      *)
(***************************************************************************)
\* the candidate keys in probing order
Candidates(name) == <<name \o ZipSuffix, name \o TarGzSuffix>>

\* download_and_extract_zip_or_tar: the strategy a key dispatches to
Dispatch(key) ==
    IF EndsWith(key, ".zip") THEN "zip_download"
    ELSE IF EndsWith(key, ".tar.gz") THEN "tar_mkdir"
    ELSE "unsupported"

\* probe the next candidate key; the first hit is dispatched, and running out
\* of candidates is NotFound
Detect(r) ==
    /\ pc[r] = "detect"
    /\ \E headOk \in BOOLEAN :
        LET cands == Candidates(rname[r])
            key == cands[idx[r]]
        IN  /\ headOk \/ MayFail
            /\ faults' = IF headOk THEN faults ELSE faults + 1
            /\ IF FileExists(key, headOk)
               THEN /\ rkey' = [rkey EXCEPT ![r] = key]
                    /\ IF Dispatch(key) = "unsupported"
                       THEN /\ pc' = [pc EXCEPT ![r] = "done"]
                            /\ resp' = [resp EXCEPT ![r] = ErrorResponse("Unsupported file type")]
                       ELSE /\ pc' = [pc EXCEPT ![r] = Dispatch(key)]
                            /\ UNCHANGED resp
                    /\ hist' = [hist EXCEPT ![r].heads = @ + 1]
                    /\ UNCHANGED idx
               ELSE IF idx[r] < Len(cands)
               THEN /\ idx' = [idx EXCEPT ![r] = @ + 1]
                    /\ hist' = [hist EXCEPT ![r].heads = @ + 1]
                    /\ UNCHANGED <<pc, resp, rkey>>
               ELSE /\ pc' = [pc EXCEPT ![r] = "done"]
                    /\ resp' = [resp EXCEPT ![r] = ErrorResponse("NotFound")]
                    /\ hist' = [hist EXCEPT ![r].heads = @ + 1,
                                            ![r].stage = "notfound"]
                    /\ UNCHANGED <<idx, rkey>>
    /\ UNCHANGED <<storeVars, diskVars, cacheVars, rname, hWrite, hRead, files>>

(***************************************************************************)
(* download_and_extract_zip.                                               *)
(***************************************************************************)
\* download_file(s3_key)
ZipDownload(r) ==
    /\ pc[r] = "zip_download"
    /\ \/ /\ rkey[r] \in s3
          /\ pc' = [pc EXCEPT ![r] = "zip_mkdir"]
          /\ hist' = [hist EXCEPT ![r].gets = @ + 1]
          /\ UNCHANGED <<resp, faults>>
       \/ /\ MayFail \/ rkey[r] \notin s3
          /\ faults' = IF rkey[r] \in s3 THEN faults + 1 ELSE faults
          /\ Fail(r, "download", "Sdk Download Object Error")
    /\ UNCHANGED <<storeVars, diskVars, cacheVars, rname, localVars>>

\* create_dir_all(output_dir)
ZipMkdir(r) ==
    /\ pc[r] = "zip_mkdir"
    /\ \/ /\ dirs' = dirs \cup {OutputDir(rname[r])}
          /\ pc' = [pc EXCEPT ![r] = "zip_create"]
          /\ hist' = [hist EXCEPT ![r].mkdirOk = TRUE]
          /\ UNCHANGED <<resp, faults>>
       \/ /\ MayFail
          /\ faults' = faults + 1
          /\ Fail(r, "mkdir", "File I/O error")
          /\ UNCHANGED dirs
    /\ UNCHANGED <<storeVars, fileset, tempIno, inode, cacheVars, rname, localVars>>

\* File::create(&zip_path)
ZipCreate(r) ==
    /\ pc[r] = "zip_create"
    /\ \/ /\ CreateFile(r, ZipTempPath(OutputDir(rname[r])))
          /\ pc' = [pc EXCEPT ![r] = "zip_write"]
          /\ UNCHANGED <<resp, hist, faults>>
       \/ /\ MayFail
          /\ faults' = faults + 1
          /\ Fail(r, "create", "File I/O error")
          /\ UNCHANGED <<tempIno, inode, hWrite>>
    /\ UNCHANGED <<storeVars, dirs, fileset, cacheVars, rname, rkey, hRead, idx, files>>

\* file.write_all(&zip_data)
ZipWrite(r) ==
    /\ pc[r] = "zip_write"
    /\ \/ /\ WriteAll(r)
          /\ pc' = [pc EXCEPT ![r] = "zip_open"]
          /\ UNCHANGED <<resp, hist, faults>>
       \/ /\ MayFail
          /\ faults' = faults + 1
          /\ Fail(r, "write", "File I/O error")
          /\ UNCHANGED inode
    /\ UNCHANGED <<storeVars, dirs, fileset, tempIno, cacheVars, rname, localVars>>

\* File::open(&zip_path)
ZipOpen(r) ==
    /\ pc[r] = "zip_open"
    /\ LET path == ZipTempPath(OutputDir(rname[r]))
       IN  \/ /\ tempIno[path] # 0
              /\ hRead' = [hRead EXCEPT ![r] = tempIno[path]]
              /\ pc' = [pc EXCEPT ![r] = "zip_read"]
              /\ UNCHANGED <<resp, hist, faults>>
           \/ /\ MayFail \/ tempIno[path] = 0
              /\ faults' = IF tempIno[path] # 0 THEN faults + 1 ELSE faults
              /\ Fail(r, "open", "File I/O error")
              /\ UNCHANGED hRead
    /\ UNCHANGED <<storeVars, diskVars, cacheVars, rname, rkey, hWrite, idx, files>>

\* ZipArchive::new(file) with the output directory removed when it fails
ZipReadRollback(r) ==
    /\ pc[r] = "zip_read"
    /\ \/ /\ inode[hRead[r]] = "full"
          /\ idx' = [idx EXCEPT ![r] = 1]
          /\ files' = [files EXCEPT ![r] = <<>>]
          /\ pc' = [pc EXCEPT ![r] = "zip_entry"]
          /\ UNCHANGED <<resp, hist, faults, dirs>>
       \/ /\ MayFail \/ inode[hRead[r]] # "full"
          /\ faults' = IF inode[hRead[r]] = "full" THEN faults + 1 ELSE faults
          /\ Fail(r, "read", "ZIP extraction error")
          /\ dirs' = dirs \ {OutputDir(rname[r])}
          /\ UNCHANGED <<idx, files>>
    /\ UNCHANGED <<storeVars, fileset, tempIno, inode, cacheVars, rname, rkey, hWrite,
                   hRead>>

\* ZipArchive::new(file): read the central directory; let mut extracted_files
ZipRead(r) ==
    /\ pc[r] = "zip_read"
    /\ \/ /\ inode[hRead[r]] = "full"
          /\ idx' = [idx EXCEPT ![r] = 1]
          /\ files' = [files EXCEPT ![r] = <<>>]
          /\ pc' = [pc EXCEPT ![r] = "zip_entry"]
          /\ UNCHANGED <<resp, hist, faults>>
       \/ /\ MayFail \/ inode[hRead[r]] # "full"
          /\ faults' = IF inode[hRead[r]] = "full" THEN faults + 1 ELSE faults
          /\ Fail(r, "read", "ZIP extraction error")
          /\ UNCHANGED <<idx, files>>
    /\ UNCHANGED <<storeVars, diskVars, cacheVars, rname, rkey, hWrite, hRead>>

\* the iteration with the path pushed as soon as the file is created, before
\* its content is copied
ExtractEntryPushBeforeCopy(dir, e, readable, fault, clobbered, d, f, out) ==
    LET comps == MangledName(e.name)
        outpath == PathJoin(dir, comps)
        parent == IF Len(comps) <= 1 THEN dir
                  ELSE PathJoin(dir, SubSeq(comps, 1, Len(comps) - 1))
        same == [dirs |-> d, fileset |-> f, files |-> out]
    IN  IF ~readable THEN same
        ELSE IF e.isDir
        THEN IF fault = "create" \/ DirsCreated(dir, comps) \cap f # {}
             THEN same
             ELSE [dirs |-> d \cup DirsCreated(dir, comps), fileset |-> f, files |-> out]
        ELSE IF fault = "create" \/ comps = <<>> \/ parent \notin d \/ outpath \in d
             THEN same
             ELSE [dirs |-> d, fileset |-> f \cup {outpath},
                   files |-> Append(out, outpath)]

\* one iteration of the entry loop on entry e, with the disk holding
\* directories d and files f and out the result so far.  readable: by_index
\* could read the entry; fault: the call that fails ("none", "create", "copy");
\* clobbered: File::create truncated the archive the entry is read from, so
\* that copy finds no data and fails unless the entry has none
ExtractEntry(dir, e, readable, fault, clobbered, d, f, out) ==
    LET comps == MangledName(e.name)
        outpath == PathJoin(dir, comps)
        parent == IF Len(comps) <= 1 THEN dir
                  ELSE PathJoin(dir, SubSeq(comps, 1, Len(comps) - 1))
        same == [dirs |-> d, fileset |-> f, files |-> out]
    IN  IF ~readable THEN same
        ELSE IF e.isDir
        THEN IF fault = "create" \/ DirsCreated(dir, comps) \cap f # {}
             THEN same
             ELSE [dirs |-> d \cup DirsCreated(dir, comps), fileset |-> f, files |-> out]
        ELSE IF fault = "create" \/ comps = <<>> \/ parent \notin d \/ outpath \in d
             THEN same
             ELSE IF fault = "copy" \/ (clobbered /\ e.size > 0)
                  THEN [dirs |-> d, fileset |-> f \cup {outpath}, files |-> out]
                  ELSE [dirs |-> d, fileset |-> f \cup {outpath},
                        files |-> Append(out, outpath)]

\* File::create(&outpath) is reached by the iteration and succeeds
CreatesFile(dir, e, readable, fault, d) ==
    LET comps == MangledName(e.name)
        outpath == PathJoin(dir, comps)
        parent == IF Len(comps) <= 1 THEN dir
                  ELSE PathJoin(dir, SubSeq(comps, 1, Len(comps) - 1))
    IN  /\ readable
        /\ ~e.isDir
        /\ ~(fault = "create" \/ comps = <<>> \/ parent \notin d \/ outpath \in d)

\* the temporary download File::create(&path) truncates: the file open at
\* path, when path is where a temporary download lies (0: none)
TruncatedBy(path) ==
    IF path \in DOMAIN tempIno THEN tempIno[path] ELSE 0

\* the body of `for i in 0..archive.len()` for the next entry
ZipEntry(r) ==
    /\ pc[r] = "zip_entry"
    /\ idx[r] <= Len(ZipEntriesOf(rkey[r]))
    /\ \E fault \in {"none", "read", "create", "copy"} :
        LET e == ZipEntriesOf(rkey[r])[idx[r]]
            dir == OutputDir(rname[r])
            readable == inode[hRead[r]] = "full" /\ fault # "read"
            creates == CreatesFile(dir, e, readable, fault, dirs)
            target == TruncatedBy(PathJoin(dir, MangledName(e.name)))
            clobbered == creates /\ target # 0 /\ target = hRead[r]
            after == ExtractEntry(dir, e, readable, fault, clobbered,
                                  dirs, fileset, files[r])
        IN  /\ fault = "none" \/ MayFail
            /\ fault = "copy" => ~e.isDir
            /\ faults' = IF fault = "none" THEN faults ELSE faults + 1
            /\ dirs' = after.dirs
            /\ fileset' = after.fileset
            /\ inode' = IF creates /\ target # 0
                         THEN [inode EXCEPT ![target] = "empty"]
                         ELSE inode
            /\ files' = [files EXCEPT ![r] = after.files]
            /\ idx' = [idx EXCEPT ![r] = @ + 1]
    /\ UNCHANGED <<storeVars, tempIno, cacheVars, pc, rname, rkey, hWrite,
                   hRead, resp, hist>>

\* fs::remove_file(&zip_path), then Ok(extracted_files)
ZipRemove(r) ==
    /\ pc[r] = "zip_entry"
    /\ idx[r] > Len(ZipEntriesOf(rkey[r]))
    /\ \E ok \in BOOLEAN :
        /\ ok \/ MayFail
        /\ faults' = IF ok THEN faults ELSE faults + 1
        /\ RemoveFile(ZipTempPath(OutputDir(rname[r])), ok)
        /\ fileset' = IF ok THEN fileset \ {ZipTempPath(OutputDir(rname[r]))}
                       ELSE fileset
        /\ hist' = [hist EXCEPT ![r].extracted = TRUE,
                                ![r].removed = IF ok THEN "ok" ELSE "failed"]
    /\ pc' = [pc EXCEPT ![r] = "cache_store"]
    /\ UNCHANGED <<storeVars, dirs, inode, cacheVars, rname, localVars, resp>>

(***************************************************************************)
(* download_and_extract_tar_gz.                                            *)
(***************************************************************************)
\* create_dir_all(output_dir)
TarMkdir(r) ==
    /\ pc[r] = "tar_mkdir"
    /\ \/ /\ dirs' = dirs \cup {OutputDir(rname[r])}
          /\ pc' = [pc EXCEPT ![r] = "tar_download"]
          /\ hist' = [hist EXCEPT ![r].mkdirOk = TRUE]
          /\ UNCHANGED <<resp, faults>>
       \/ /\ MayFail
          /\ faults' = faults + 1
          /\ Fail(r, "mkdir", "File I/O error")
          /\ UNCHANGED dirs
    /\ UNCHANGED <<storeVars, fileset, tempIno, inode, cacheVars, rname, localVars>>

\* download_file(s3_key)
TarDownload(r) ==
    /\ pc[r] = "tar_download"
    /\ \/ /\ rkey[r] \in s3
          /\ pc' = [pc EXCEPT ![r] = "tar_create"]
          /\ hist' = [hist EXCEPT ![r].gets = @ + 1]
          /\ UNCHANGED <<resp, faults>>
       \/ /\ MayFail \/ rkey[r] \notin s3
          /\ faults' = IF rkey[r] \in s3 THEN faults + 1 ELSE faults
          /\ Fail(r, "download", "Sdk Download Object Error")
    /\ UNCHANGED <<storeVars, diskVars, cacheVars, rname, localVars>>

\* File::create(&tar_gz_path)
TarCreate(r) ==
    /\ pc[r] = "tar_create"
    /\ \/ /\ CreateFile(r, TarTempPath(OutputDir(rname[r])))
          /\ pc' = [pc EXCEPT ![r] = "tar_write"]
          /\ UNCHANGED <<resp, hist, faults>>
       \/ /\ MayFail
          /\ faults' = faults + 1
          /\ Fail(r, "create", "File I/O error")
          /\ UNCHANGED <<tempIno, inode, hWrite>>
    /\ UNCHANGED <<storeVars, dirs, fileset, cacheVars, rname, rkey, hRead, idx, files>>

\* file.write_all(&tar_gz_data)
TarWrite(r) ==
    /\ pc[r] = "tar_write"
    /\ \/ /\ WriteAll(r)
          /\ pc' = [pc EXCEPT ![r] = "tar_run"]
          /\ UNCHANGED <<resp, hist, faults>>
       \/ /\ MayFail
          /\ faults' = faults + 1
          /\ Fail(r, "write", "File I/O error")
          /\ UNCHANGED inode
    /\ UNCHANGED <<storeVars, dirs, fileset, tempIno, cacheVars, rname, localVars>>

\* tar -xzf <tar_gz_path> -C <output_dir> exits zero: the path names a file
\* that holds the whole archive
TarSucceeds(path) == tempIno[path] # 0 /\ inode[tempIno[path]] = "full"

\* Command::new("tar")...status() and the check of the exit status
TarRun(r) ==
    /\ pc[r] = "tar_run"
    /\ LET dir == OutputDir(rname[r])
           path == TarTempPath(dir)
       IN  \/ /\ TarSucceeds(path)
              /\ fileset' = fileset \cup
                    {PathJoin(dir, <<TarFilesOf(rkey[r])[i]>>) :
                        i \in 1..Len(TarFilesOf(rkey[r]))}
              /\ pc' = [pc EXCEPT ![r] = "tar_remove"]
              /\ UNCHANGED <<resp, hist, faults>>
           \/ /\ MayFail
              /\ faults' = faults + 1
              /\ Fail(r, "launch", "Failed to execute tar command")
              /\ UNCHANGED fileset
           \/ /\ MayFail \/ ~TarSucceeds(path)
              /\ faults' = IF TarSucceeds(path) THEN faults + 1 ELSE faults
              /\ Fail(r, "exit", "Failed to extract tar.gz")
              /\ UNCHANGED fileset
    /\ UNCHANGED <<storeVars, dirs, tempIno, inode, cacheVars, rname, localVars>>

\* the strategy returning the paths tar unpacked in place of the marker
TarRemoveListsFiles(r) ==
    /\ pc[r] = "tar_remove"
    /\ \E ok \in BOOLEAN :
        /\ ok \/ MayFail
        /\ faults' = IF ok THEN faults ELSE faults + 1
        /\ RemoveFile(TarTempPath(OutputDir(rname[r])), ok)
        /\ hist' = [hist EXCEPT ![r].extracted = TRUE,
                                ![r].removed = IF ok THEN "ok" ELSE "failed"]
    /\ files' = [files EXCEPT ![r] =
                    [i \in 1..Len(TarFilesOf(rkey[r])) |->
                        PathJoin(OutputDir(rname[r]), <<TarFilesOf(rkey[r])[i]>>)]]
    /\ pc' = [pc EXCEPT ![r] = "cache_store"]
    /\ UNCHANGED <<storeVars, dirs, fileset, inode, cacheVars, rname, rkey, hWrite,
                   hRead, idx, resp>>

\* fs::remove_file(&tar_gz_path), then Ok(vec![marker])
TarRemove(r) ==
    /\ pc[r] = "tar_remove"
    /\ \E ok \in BOOLEAN :
        /\ ok \/ MayFail
        /\ faults' = IF ok THEN faults ELSE faults + 1
        /\ RemoveFile(TarTempPath(OutputDir(rname[r])), ok)
        /\ hist' = [hist EXCEPT ![r].extracted = TRUE,
                                ![r].removed = IF ok THEN "ok" ELSE "failed"]
    /\ files' = [files EXCEPT ![r] = <<TarMarker>>]
    /\ pc' = [pc EXCEPT ![r] = "cache_store"]
    /\ UNCHANGED <<storeVars, dirs, fileset, inode, cacheVars, rname, rkey, hWrite,
                   hRead, idx, resp>>

(***************************************************************************)
(* view_codebase_handler: the Ok(files) arm of the extraction branch.      *)
(***************************************************************************)
\* the store made best-effort: its error is logged and the files returned
ExtractedResponseBestEffort(paths, stored) == OkResponse("files", paths)

\* the response of the arm: the early return on Err(e) of cache_files, else
\* the extracted files
ExtractedResponse(paths, stored) ==
    IF stored THEN OkResponse("files", paths)
    ELSE ErrorResponse("Redis connection error")

\* the arm without its cache_files call
CacheExtractedNoStore(r) ==
    /\ pc[r] = "cache_store"
    /\ resp' = [resp EXCEPT ![r] = ExtractedResponse(files[r], TRUE)]
    /\ pc' = [pc EXCEPT ![r] = "done"]
    /\ UNCHANGED <<storeVars, diskVars, cacheVars, faults, rname, localVars, hist>>

\* cache_files(&name, &files), an early error return when it fails, else the
\* success response
CacheExtracted(r) ==
    /\ pc[r] = "cache_store"
    /\ \/ /\ CacheFiles(r, files[r], TRUE)
          /\ resp' = [resp EXCEPT ![r] = ExtractedResponse(files[r], TRUE)]
          /\ hist' = [hist EXCEPT ![r].setOk = TRUE,
                                  ![r].setKey = FileCacheKey(rname[r]),
                                  ![r].setValue = cache'[FileCacheKey(rname[r])].value,
                                  ![r].setTtl = cache'[FileCacheKey(rname[r])].ttl]
          /\ UNCHANGED faults
       \/ /\ MayFail
          /\ faults' = faults + 1
          /\ CacheFiles(r, files[r], FALSE)
          /\ resp' = [resp EXCEPT ![r] = ExtractedResponse(files[r], FALSE)]
          /\ hist' = [hist EXCEPT ![r].stage = "cache"]
    /\ pc' = [pc EXCEPT ![r] = "done"]
    /\ UNCHANGED <<storeVars, diskVars, rname, localVars>>

(***************************************************************************)
(* The specification: requests arrive and run interleaved.                 *)
(***************************************************************************)
Next ==
    \/ \E r \in Requests, n \in Names : Start(r, n)
    \/ \E r \in Requests : GetCached(r)
    \/ \E r \in Requests : Backfill(r)
    \/ \E r \in Requests : Detect(r)
    \/ \E r \in Requests : ZipDownload(r)
    \/ \E r \in Requests : ZipMkdir(r)
    \/ \E r \in Requests : ZipCreate(r)
    \/ \E r \in Requests : ZipWrite(r)
    \/ \E r \in Requests : ZipOpen(r)
    \/ \E r \in Requests : ZipRead(r)
    \/ \E r \in Requests : ZipEntry(r)
    \/ \E r \in Requests : ZipRemove(r)
    \/ \E r \in Requests : TarMkdir(r)
    \/ \E r \in Requests : TarDownload(r)
    \/ \E r \in Requests : TarCreate(r)
    \/ \E r \in Requests : TarWrite(r)
    \/ \E r \in Requests : TarRun(r)
    \/ \E r \in Requests : TarRemove(r)
    \/ \E r \in Requests : CacheExtracted(r)
    \/ \E k \in CacheKeys : Expire(k)

Spec == Init /\ [][Next]_vars

(***************************************************************************)
(* Properties of the retrieval state machine.                              *)
(***************************************************************************)
Started(r) == pc[r] # "idle"

\* the paths of the file entries of an archive, in entry order
RECURSIVE FilePathsOf(_, _)
FilePathsOf(dir, entries) ==
    IF entries = <<>> THEN <<>>
    ELSE (IF entries[1].isDir THEN <<>>
          ELSE <<PathJoin(dir, MangledName(entries[1].name))>>)
             \o FilePathsOf(dir, Tail(entries))

\* the entries of paths at the indexes in keep, in order
RECURSIVE Pick(_, _, _)
Pick(paths, keep, i) ==
    IF i > Len(paths) THEN <<>>
    ELSE (IF i \in keep THEN <<paths[i]>> ELSE <<>>) \o Pick(paths, keep, i + 1)

\* every result sequence a retrieval of a bundle can cache or return
ResultsOf(n) ==
    LET all == FilePathsOf(OutputDir(n), ZipEntriesOf(n \o ".zip"))
    IN  {Pick(all, keep, 1) : keep \in SUBSET (1..Len(all))}
            \cup {<<TarMarker>>, <<OutputDir(n)>>}
Results == UNION {ResultsOf(n) : n \in Names}

\* the payload of each result sequence, and the sequence each payload reads
\* back as, computed once
PayloadOf == [paths \in Results |-> Serialize(paths)]
ResultOf == [payload \in {PayloadOf[paths] : paths \in Results} |-> Deserialize(payload)]

\* C1: a request that starts while the bundle's local directory exists takes
\* the LocalPresent branch and makes no object store call (no HEAD, no GET),
\* creates no directory and runs no extractor; on a cache hit it answers 200
\* with the cached payload.
C1_LocalPresentSkipsStore ==
    \A r \in Requests :
        (Started(r) /\ hist[r].dirAtStart) =>
            /\ hist[r].branch = "local"
            /\ hist[r].heads = 0
            /\ hist[r].gets = 0
            /\ ~hist[r].mkdirOk
            /\ ~hist[r].extracted
            /\ hist[r].cacheRead = "hit" =>
                  /\ pc[r] = "done"
                  /\ resp[r].status = StatusOk
                  /\ resp[r].kind = "file"
                  /\ resp[r].body \in Results
                  /\ PayloadOf[resp[r].body] = hist[r].readValue

\* a request started with the directory present, hit the cache and answered
C1_Witness ==
    \E r \in Requests :
        /\ hist[r].dirAtStart
        /\ hist[r].cacheRead = "hit"
        /\ pc[r] = "done"
        /\ resp[r].body # <<>>

\* C2: a request on the extraction branch whose extractor returned Ok answers
\* 200 only after its SETEX of the serialized result under "file_cache:" +
\* name with a TTL of 3600 succeeded, and the body of that answer is exactly
\* the extraction result; otherwise it answers with the cache error.
C2_ExtractedIsCachedThenReturned ==
    \A r \in Requests :
        (hist[r].branch = "remote" /\ hist[r].extracted /\ pc[r] = "done") =>
            IF resp[r].status = StatusOk
            THEN /\ hist[r].setOk
                 /\ hist[r].setKey = "file_cache:" \o rname[r]
                 /\ hist[r].setTtl = 3600
                 /\ files[r] \in Results
                 /\ hist[r].setValue = PayloadOf[files[r]]
                 /\ ResultOf[hist[r].setValue] = files[r]
                 /\ resp[r].kind = "files"
                 /\ resp[r].body = files[r]
            ELSE /\ hist[r].stage = "cache"
                 /\ ~hist[r].setOk

\* a request extracted a non-empty result, cached it and answered 200
C2_Witness ==
    \E r \in Requests :
        /\ hist[r].branch = "remote"
        /\ hist[r].extracted
        /\ pc[r] = "done"
        /\ resp[r].status = StatusOk
        /\ files[r] # <<>>
        /\ hist[r].setOk

\* C3: a request on the LocalPresent branch that finds no cache entry and
\* answers has written the cache entry whose value is the one-element
\* sequence holding the local directory path, and answers 200 with that same
\* sequence.
C3_BackfillCachesLocalDir ==
    \A r \in Requests :
        (hist[r].branch = "local" /\ hist[r].cacheRead = "miss" /\ pc[r] = "done") =>
            /\ resp[r] = OkResponse("files", <<OutputDir(rname[r])>>)
            /\ hist[r].setOk
            /\ hist[r].setKey = FileCacheKey(rname[r])
            /\ hist[r].setValue = PayloadOf[<<OutputDir(rname[r])>>]
            /\ ResultOf[hist[r].setValue] = <<OutputDir(rname[r])>>

\* a request started with the directory present, missed the cache and answered
C3_Witness ==
    \E r \in Requests :
        /\ hist[r].dirAtStart
        /\ hist[r].cacheRead = "miss"
        /\ pc[r] = "done"
        /\ resp[r].status = StatusOk

\* the bucket holds an archive of the bundle
ArchiveStored(name) == name \o ".zip" \in s3 \/ name \o ".tar.gz" \in s3

\* C4: of two successive requests for a bundle whose archive is stored, the
\* first starting with no local directory and no cache entry and answering
\* 200, the second (started after the first answered, the entry not expired
\* and its cache read not failing) answers 200 with the same result sequence,
\* read from the cache entry the first wrote, without any object store call.
C4_SecondServedFromFirst ==
    \A r1, r2 \in Requests :
        ( /\ r1 # r2
          /\ \A q \in Requests \ {r1, r2} : pc[q] = "idle"
          /\ rname[r1] = rname[r2]
          /\ ArchiveStored(rname[r1])
          /\ ~hist[r1].dirAtStart
          /\ ~hist[r1].cachedAtStart
          /\ pc[r1] = "done"
          /\ resp[r1].status = StatusOk
          /\ r1 \in hist[r2].doneAtStart
          /\ Finished(r2)
          /\ "file_cache:" \o rname[r2] \notin dropped
          /\ hist[r2].cacheRead # "err" ) =>
            /\ pc[r2] = "done"
            /\ resp[r2].status = StatusOk
            /\ resp[r2].body = resp[r1].body
            /\ hist[r2].cacheRead = "hit"
            /\ hist[r2].readWriter = r1
            /\ hist[r2].heads = 0
            /\ hist[r2].gets = 0
            /\ ~hist[r2].extracted

\* the first request extracted files and answered, then the second answered
C4_Witness ==
    /\ pc[1] = "done"
    /\ hist[1].extracted
    /\ resp[1].status = StatusOk
    /\ resp[1].body # <<>>
    /\ 1 \in hist[2].doneAtStart
    /\ pc[2] = "done"
    /\ resp[2].body = resp[1].body

\* the extractor of the request's key
IsZipRequest(q) == EndsWith(rkey[q], ".zip")

C6_CacheStoreFailureIsError ==
    \A r \in Requests :
        (hist[r].extracted /\ hist[r].stage = "cache") =>
            /\ pc[r] = "done"
            /\ resp[r].status = StatusInternalError
            /\ resp[r].kind = "error"
            /\ ~hist[r].setOk
            /\ \A k \in CacheKeys : cache[k].writer # r

\* extraction produced files and the cache store then failed
C6_Witness ==
    \E r \in Requests :
        /\ hist[r].extracted
        /\ files[r] # <<>>
        /\ hist[r].stage = "cache"
        /\ pc[r] = "done"

\* C7: detection resolves to the first of name + ".zip", name + ".tar.gz"
\* that the bucket holds (the zip one when it holds both), and the key is
\* dispatched to the extractor of its suffix.
C7_DetectsFirstStored ==
    \A r \in Requests :
        rkey[r] # "" =>
            /\ rkey[r] = IF rname[r] \o ".zip" \in s3
                         THEN rname[r] \o ".zip"
                         ELSE rname[r] \o ".tar.gz"
            /\ rkey[r] \in s3
            /\ pc[r] \in {"zip_download", "zip_mkdir", "zip_create", "zip_write",
                          "zip_open", "zip_read", "zip_entry"} => EndsWith(rkey[r], ".zip")
            /\ pc[r] \in {"tar_mkdir", "tar_download", "tar_create", "tar_write",
                          "tar_run", "tar_remove"} => EndsWith(rkey[r], ".tar.gz")

\* C8: a request that starts with no local directory for a bundle of which
\* the bucket holds neither archive answers with an error, having downloaded
\* nothing, created no directory or file and written no cache entry; a bundle
\* with no archive never gets a directory, a temporary file or a cache entry.
C8_NotFoundChangesNothing ==
    /\ \A r \in Requests :
          ( /\ hist[r].branch = "remote"
            /\ ~ArchiveStored(rname[r])
            /\ pc[r] = "done" ) =>
              /\ resp[r].status = StatusInternalError
              /\ resp[r].kind = "error"
              /\ hist[r].stage = "notfound"
              /\ hist[r].gets = 0
              /\ ~hist[r].mkdirOk
              /\ hWrite[r] = 0
              /\ ~hist[r].setOk
              /\ \A k \in CacheKeys : cache[k].writer # r
    /\ \A n \in Names :
          ~ArchiveStored(n) =>
              /\ OutputDir(n) \notin dirs
              /\ tempIno[ZipTempPath(OutputDir(n))] = 0
              /\ tempIno[TarTempPath(OutputDir(n))] = 0
              /\ ~cache["file_cache:" \o n].present
    /\ s3 \subseteq S3Keys

\* a request for a bundle with no archive probed both keys and answered
C8_Witness ==
    \E r \in Requests :
        /\ hist[r].branch = "remote"
        /\ ~ArchiveStored(rname[r])
        /\ hist[r].heads = 2
        /\ pc[r] = "done"

\* C9: two concurrent requests for the same bundle, its archive stored and
\* at first no local directory and no cache entry, with no I/O call failing
\* and no entry expiring: both answer 200 with the same result sequence, and
\* the cache entry left equals it.
C9_ConcurrentSameResult ==
    ( /\ Finished(1) /\ Finished(2)
      /\ rname[1] = rname[2]
      /\ ArchiveStored(rname[1])
      /\ 1 \notin hist[2].doneAtStart
      /\ faults = 0
      /\ dropped = {} ) =>
        /\ resp[1].status = StatusOk
        /\ resp[2].status = StatusOk
        /\ resp[1].body = resp[2].body
        /\ cache["file_cache:" \o rname[1]].present
        /\ cache["file_cache:" \o rname[1]].value = PayloadOf[resp[1].body]

\* C10: every key holds at most one value, that of the latest SETEX that
\* succeeded on it.
C10_LastWriterWins ==
    \A k \in CacheKeys :
        cache[k].present =>
            /\ cache[k].value = lastSet[k]
            /\ \E r \in Requests :
                  /\ cache[k].writer = r
                  /\ hist[r].setOk
                  /\ hist[r].setKey = k

\* two overlapping requests for the same bundle both detected, downloaded,
\* extracted into the same directory and called SETEX on the same key
C10_Witness ==
    \E r1, r2 \in Requests :
        /\ r1 # r2
        /\ r1 \notin hist[r2].doneAtStart
        /\ rname[r1] = rname[r2]
        /\ hist[r1].branch = "remote" /\ hist[r2].branch = "remote"
        /\ hist[r1].heads > 0 /\ hist[r2].heads > 0
        /\ hist[r1].gets > 0 /\ hist[r2].gets > 0
        /\ hist[r1].extracted /\ hist[r2].extracted
        /\ hist[r1].setOk /\ hist[r2].setOk
        /\ hist[r1].setKey = hist[r2].setKey
        /\ cache[hist[r1].setKey].writer = r2

\* the temporary path a request is using: from its File::create until its
\* fs::remove_file (the empty sequence outside that window)
TempPathInUse(r) ==
    IF pc[r] \in {"zip_write", "zip_open", "zip_read", "zip_entry"}
    THEN <<ZipTempPath(OutputDir(rname[r]))>>
    ELSE IF pc[r] \in {"tar_write", "tar_run", "tar_remove"}
    THEN <<TarTempPath(OutputDir(rname[r]))>>
    ELSE <<>>

\* C11: no two extractions in flight use the same temporary file path, two
\* concurrent extractions of the same bundle included.
C11_TempPathsDistinct ==
    \A r1, r2 \in Requests :
        (r1 # r2 /\ TempPathInUse(r1) # <<>> /\ TempPathInUse(r2) # <<>>) =>
            TempPathInUse(r1) # TempPathInUse(r2)

\* the temporary path of the extractor the request ran
TempPathOf(r) ==
    IF IsZipRequest(r) THEN ZipTempPath(OutputDir(rname[r]))
    ELSE TarTempPath(OutputDir(rname[r]))

\* C12: once a request's extractor has created its temporary file, on every
\* way out (success or failure, zip or tar.gz) it attempts the deletion: with
\* no other request about, the temporary file is gone when the request ends
\* unless the deletion itself failed; and a failed deletion leaves the
\* extractor's result Ok.
C12_TempRemovedOnEveryExit ==
    \A r \in Requests :
        ( /\ \A q \in Requests \ {r} : pc[q] = "idle"
          /\ Finished(r)
          /\ hWrite[r] # 0 ) =>
            /\ hist[r].removed # "none"
            /\ hist[r].removed = "ok" => tempIno[TempPathOf(r)] = 0
            /\ hist[r].removed = "failed" => hist[r].extracted

(***************************************************************************)
(* The upload: FileService::upload_file and FileValidator::validate_file.  *)
(***************************************************************************)
\* the longest chunk stream of a field
MaxChunks == 2

StatusBadRequest == 400
StatusPayloadTooLarge == 413
StatusUnsupportedMediaType == 415

\* n zero bytes
Zeros(n) == [i \in 1..n |-> 0]

\* a chunk read that fails (a broken connection), as an element of the stream
StreamError == <<-1>>

\* the chunks a stream is made of: a whole signature, a signature cut in two,
\* other bytes, the empty chunk, a chunk one byte over the largest size, and
\* the failed read
Chunks ==
    { ZipMagic \o <<0>>, <<80, 75>>, <<3, 4, 0>>, <<0, 1>>, <<>>,
      Zeros(MaxSizeBytes + 1), StreamError }

Streams == UNION {[1..n -> Chunks] : n \in 0..MaxChunks}

\* Field::file_name() as an Option
FileNames ==
    { <<>>, <<"x.zip">>, <<"IMG.PNG">>, <<"img.png.bak">>, <<"a.jpeg">>,
      <<"x.tar.gz">>, <<"x.gz">>, <<"png">>, <<"demo.ZIP">> }

\* Field::content_type().unwrap_or("")
ContentTypes == {"", "application/zip", "image/png", "image/jpeg", "application/gzip"}

Fields == [file_name : FileNames, content_type : ContentTypes, stream : Streams]

\* the bytes of a stream's chunks in arrival order
RECURSIVE Concat(_)
Concat(stream) ==
    IF stream = <<>> THEN <<>> ELSE stream[1] \o Concat(Tail(stream))

\* {:?} of a Vec<String>
RECURSIVE DebugItems(_)
DebugItems(items) ==
    IF items = <<>> THEN ""
    ELSE Quote \o items[1] \o Quote \o (IF Len(items) > 1 THEN ", " ELSE "")
            \o DebugItems(Tail(items))
DebugVec(items) == "[" \o DebugItems(items) \o "]"

\* validate_file returns
Return(v) ==
    /\ verdict' = v
    /\ upc' = "returned"

\* validate_file up to its chunk loop: the lookup of the file type, then the
\* filename, extension and content type checks
ValidateChecks ==
    /\ upc = "validate"
    /\ LET known == {t \in file_types : t.name = file_type_name}
           file_name == field[1].file_name
       IN  IF known = {}
           THEN Return(ErrVerdict(StatusBadRequest,
                                  "Unsupported file type: " \o file_type_name))
           ELSE LET file_type == CHOOSE t \in known : TRUE
                IN  IF file_name = <<>>
                    THEN Return(ErrVerdict(StatusBadRequest, "No filename provided"))
                    ELSE IF ~ValidateExtension(file_type, file_name[1])
                    THEN Return(ErrVerdict(StatusUnsupportedMediaType,
                            "Invalid file extension. Allowed extensions: "
                                \o DebugVec(file_type.extensions)))
                    ELSE IF ~ValidateContentType(file_type, field[1].content_type)
                    THEN Return(ErrVerdict(StatusUnsupportedMediaType,
                            "Invalid content type. Allowed types: "
                                \o DebugVec(file_type.content_types)))
                    ELSE /\ upc' = "chunk"
                         /\ UNCHANGED verdict
    /\ UNCHANGED <<s3, objects, file_types, field, file_type_name, chunks_read,
                   total_bytes, buffer, uresp, retrievalVars>>

\* the file type validate_file looked up
FileTypeOf(name) == CHOOSE t \in file_types : t.name = name

\* the turn with the signature of the first chunk checked before the size
ValidateChunkMagicFirst ==
    /\ upc = "chunk"
    /\ chunks_read < Len(field[1].stream)
    /\ LET file_type == FileTypeOf(file_type_name)
           chunk == field[1].stream[chunks_read + 1]
       IN  /\ chunks_read' = chunks_read + 1
           /\ IF chunk = StreamError
              THEN /\ Return(ErrVerdict(StatusInternalError, "Failed to read chunk"))
                   /\ UNCHANGED <<total_bytes, buffer>>
              ELSE /\ total_bytes' = total_bytes + Len(chunk)
                   /\ IF buffer = <<>> /\ ~ValidateMagicNumber(file_type, chunk)
                      THEN /\ Return(ErrVerdict(StatusUnsupportedMediaType,
                                "Invalid file format for " \o file_type.name))
                           /\ UNCHANGED buffer
                      ELSE IF total_bytes' > file_type.max_size
                      THEN /\ Return(ErrVerdict(StatusPayloadTooLarge,
                                "File exceeds maximum allowed size of "
                                    \o ToString(file_type.max_size) \o " bytes"))
                           /\ UNCHANGED buffer
                      ELSE /\ buffer' = buffer \o chunk
                           /\ UNCHANGED <<upc, verdict>>
    /\ UNCHANGED <<s3, objects, file_types, field, file_type_name, uresp,
                   retrievalVars>>

\* the turn without the running size check
ValidateChunkUnbounded ==
    /\ upc = "chunk"
    /\ chunks_read < Len(field[1].stream)
    /\ LET file_type == FileTypeOf(file_type_name)
           chunk == field[1].stream[chunks_read + 1]
       IN  /\ chunks_read' = chunks_read + 1
           /\ IF chunk = StreamError
              THEN /\ Return(ErrVerdict(StatusInternalError, "Failed to read chunk"))
                   /\ UNCHANGED <<total_bytes, buffer>>
              ELSE /\ total_bytes' = total_bytes + Len(chunk)
                   /\ buffer' = buffer \o chunk
                   /\ IF /\ Len(buffer') = Len(chunk)
                         /\ ~ValidateMagicNumber(file_type, buffer')
                      THEN Return(ErrVerdict(StatusUnsupportedMediaType,
                              "Invalid file format for " \o file_type.name))
                      ELSE UNCHANGED <<upc, verdict>>
    /\ UNCHANGED <<s3, objects, file_types, field, file_type_name, uresp,
                   retrievalVars>>

\* one turn of `while let Some(chunk) = field.chunk().await.transpose()`
ValidateChunk ==
    /\ upc = "chunk"
    /\ chunks_read < Len(field[1].stream)
    /\ LET file_type == FileTypeOf(file_type_name)
           chunk == field[1].stream[chunks_read + 1]
       IN  /\ chunks_read' = chunks_read + 1
           /\ IF chunk = StreamError
              THEN /\ Return(ErrVerdict(StatusInternalError, "Failed to read chunk"))
                   /\ UNCHANGED <<total_bytes, buffer>>
              ELSE /\ total_bytes' = total_bytes + Len(chunk)
                   /\ IF total_bytes' > file_type.max_size
                      THEN /\ Return(ErrVerdict(StatusPayloadTooLarge,
                                "File exceeds maximum allowed size of "
                                    \o ToString(file_type.max_size) \o " bytes"))
                           /\ UNCHANGED buffer
                      ELSE /\ buffer' = buffer \o chunk
                           /\ IF /\ Len(buffer') = Len(chunk)
                                 /\ ~ValidateMagicNumber(file_type, buffer')
                              THEN Return(ErrVerdict(StatusUnsupportedMediaType,
                                      "Invalid file format for " \o file_type.name))
                              ELSE UNCHANGED <<upc, verdict>>
    /\ UNCHANGED <<s3, objects, file_types, field, file_type_name, uresp,
                   retrievalVars>>

\* the stream is exhausted: Ok(buffer)
ValidateEnd ==
    /\ upc = "chunk"
    /\ chunks_read = Len(field[1].stream)
    /\ Return(OkVerdict(buffer))
    /\ UNCHANGED <<s3, objects, file_types, field, file_type_name, chunks_read,
                   total_bytes, buffer, uresp, retrievalVars>>

\* validate_file called on any registered or unregistered type name, any
\* field and the registry with every type
ValidateInit ==
    /\ s3 = {}
    /\ objects = [k \in s3 |-> <<>>]
    /\ NoRetrieval
    /\ NoHealthCheck
    /\ file_types = DefaultTypes \cup ExtraTypes
    /\ \E f \in Fields : field = <<f>>
    /\ file_type_name \in {t.name : t \in file_types} \cup {"BMP"}
    /\ upc = "validate"
    /\ chunks_read = 0
    /\ total_bytes = 0
    /\ buffer = <<>>
    /\ verdict = NoVerdict
    /\ uresp = NoUploadResponse

ValidateNext ==
    \/ ValidateChecks
    \/ ValidateChunk
    \/ ValidateEnd

ValidateSpec == ValidateInit /\ [][ValidateNext]_vars

(***************************************************************************)
(* Properties of validate_file.                                            *)
(***************************************************************************)
\* validate_file has returned for a registered file type
Validated ==
    /\ upc = "returned"
    /\ \E t \in file_types : t.name = file_type_name

\* the checks before the chunk loop pass for the field
ChecksPass ==
    /\ field[1].file_name # <<>>
    /\ ValidateExtension(FileTypeOf(file_type_name), field[1].file_name[1])
    /\ ValidateContentType(FileTypeOf(file_type_name), field[1].content_type)

\* the error is the one of the given check
IsNoFilename(v) == ~v.ok /\ v.code = 400 /\ v.message = "No filename provided"
IsUnsupportedExtension(v) ==
    ~v.ok /\ v.code = 415 /\ StartsWith(v.message, "Invalid file extension")
IsUnsupportedContentType(v) ==
    ~v.ok /\ v.code = 415 /\ StartsWith(v.message, "Invalid content type")
IsPayloadTooLarge(v) ==
    ~v.ok /\ v.code = 413 /\ StartsWith(v.message, "File exceeds maximum allowed size")
IsBadSignature(v) ==
    ~v.ok /\ v.code = 415 /\ StartsWith(v.message, "Invalid file format")

\* the first chunk is both larger than max_size and without a signature
FirstChunkLargeAndUnsigned ==
    /\ field[1].stream # <<>>
    /\ field[1].stream[1] # StreamError
    /\ Len(field[1].stream[1]) > FileTypeOf(file_type_name).max_size
    /\ ~ValidateMagicNumber(FileTypeOf(file_type_name), field[1].stream[1])

\* C13: validate_file checks filename, extension, content type, running size
\* and signature in that order and returns the first failure: a bad extension
\* wins over a bad content type, an oversize first chunk wins over its bad
\* signature, and a failure of the filename, extension or content type check
\* reads no chunk.
C13_ChecksInOrder ==
    Validated =>
        LET f == field[1]
            t == FileTypeOf(file_type_name)
        IN  /\ f.file_name = <<>> => IsNoFilename(verdict) /\ chunks_read = 0
            /\ (f.file_name # <<>> /\ ~ValidateExtension(t, f.file_name[1])) =>
                  IsUnsupportedExtension(verdict) /\ chunks_read = 0
            /\ ( /\ f.file_name # <<>>
                 /\ ValidateExtension(t, f.file_name[1])
                 /\ ~ValidateContentType(t, f.content_type) ) =>
                  IsUnsupportedContentType(verdict) /\ chunks_read = 0
            /\ (ChecksPass /\ FirstChunkLargeAndUnsigned) =>
                  IsPayloadTooLarge(verdict) /\ chunks_read = 1

\* a field that passes the first three checks and whose first chunk is both
\* oversize and unsigned has been validated
C13_Witness ==
    /\ Validated
    /\ ChecksPass
    /\ FirstChunkLargeAndUnsigned
    /\ FileTypeOf(file_type_name).magic_numbers # <<>>
    /\ IsPayloadTooLarge(verdict)

\* the length of a chunk (a failed read delivers nothing)
ChunkLen(chunk) == IF chunk = StreamError THEN 0 ELSE Len(chunk)

\* the bytes the first k chunks of a stream deliver
RECURSIVE RunningTotal(_, _)
RunningTotal(stream, k) ==
    IF k = 0 THEN 0 ELSE RunningTotal(stream, k - 1) + ChunkLen(stream[k])

\* the chunks whose arrival takes the running total above max
Crossings(stream, max) == {k \in 1..Len(stream) : RunningTotal(stream, k) > max}

\* the first of them
FirstCrossing(stream, max) ==
    CHOOSE k \in Crossings(stream, max) : \A j \in Crossings(stream, max) : k <= j

\* no read among the first k fails
ReadsOk(stream, k) == \A i \in 1..k : stream[i] # StreamError

\* C14 as stated: for a field that passes the filename, extension and content
\* type checks and whose stream is longer in total than max_size,
\* validate_file fails with PayloadTooLarge at the first chunk that takes the
\* total above max_size, with no later chunk read or buffered.
C14_OversizeIsTooLarge ==
    LET stream == field[1].stream
        max == FileTypeOf(file_type_name).max_size
    IN  ( /\ Validated
          /\ ChecksPass
          /\ ReadsOk(stream, Len(stream))
          /\ Crossings(stream, max) # {} ) =>
            /\ IsPayloadTooLarge(verdict)
            /\ chunks_read = FirstCrossing(stream, max)
            /\ buffer = Concat(SubSeq(stream, 1, chunks_read - 1))

\* C14 as amended: the same, for the streams whose chunks up to the crossing
\* one are read without error and whose first chunk is the crossing one or
\* passes the signature check; a first chunk within max_size that fails the
\* signature check ends validate_file with BadSignature at that chunk.
C14_OversizeTooLargeUnlessUnsigned ==
    LET stream == field[1].stream
        file_type == FileTypeOf(file_type_name)
        max == file_type.max_size
    IN  ( /\ Validated
          /\ ChecksPass
          /\ Crossings(stream, max) # {}
          /\ ReadsOk(stream, FirstCrossing(stream, max)) ) =>
            IF \/ FirstCrossing(stream, max) = 1
               \/ ValidateMagicNumber(file_type, stream[1])
            THEN /\ IsPayloadTooLarge(verdict)
                 /\ chunks_read = FirstCrossing(stream, max)
                 /\ buffer = Concat(SubSeq(stream, 1, chunks_read - 1))
            ELSE /\ IsBadSignature(verdict)
                 /\ chunks_read = 1

\* a stream went over max_size at a chunk after its first, with later chunks
\* or none, and validate_file stopped there
C14_Witness ==
    /\ Validated
    /\ ChecksPass
    /\ IsPayloadTooLarge(verdict)
    /\ chunks_read > 1
    /\ buffer # <<>>
    /\ chunks_read = FirstCrossing(field[1].stream, FileTypeOf(file_type_name).max_size)

\* some magic number of the file type is a prefix of the bytes
Signed(file_type, bytes) ==
    \E i \in 1..Len(file_type.magic_numbers) :
        StartsWith(bytes, file_type.magic_numbers[i])

\* C15: for a file type with at least one magic number and a field whose
\* extension and content type match, a stream whose leading bytes begin with
\* none of the magic numbers fails validate_file with BadSignature.  Read in
\* the claim's favour: the streams that are read without error and are not
\* longer than max_size, so that no other check can fail first.
C15_UnsignedIsBadSignature ==
    LET stream == field[1].stream
        file_type == FileTypeOf(file_type_name)
    IN  ( /\ Validated
          /\ ChecksPass
          /\ file_type.magic_numbers # <<>>
          /\ ReadsOk(stream, Len(stream))
          /\ Crossings(stream, file_type.max_size) = {}
          /\ ~Signed(file_type, Concat(stream)) ) =>
            IsBadSignature(verdict)

\* the positions of the dots of a filename
DotPositions(filename) == {i \in 1..Len(filename) : SubSeq(filename, i, i) = "."}

\* the extension of a filename as an Option: the text after its last dot, and
\* none for a filename without a dot
ExtensionOf(filename) ==
    IF DotPositions(filename) = {} THEN <<>>
    ELSE LET last == CHOOSE i \in DotPositions(filename) :
                        \A j \in DotPositions(filename) : j <= i
         IN  <<SubSeq(filename, last + 1, Len(filename))>>

\* the file type lists the extension, letter case aside
Lists(file_type, extension) ==
    \E i \in 1..Len(file_type.extensions) :
        ToLower(file_type.extensions[i]) = ToLower(extension)

\* C16: for every registered file type, validate_file rejects with
\* UnsupportedExtension every filename whose extension, the text after its
\* last dot, is not one the type lists (letter case aside), and no filename
\* whose extension is listed.
C16_ExtensionAfterLastDot ==
    (Validated /\ field[1].file_name # <<>>) =>
        LET file_type == FileTypeOf(file_type_name)
            extension == ExtensionOf(field[1].file_name[1])
        IN  IF extension # <<>> /\ Lists(file_type, extension[1])
            THEN ~IsUnsupportedExtension(verdict)
            ELSE IsUnsupportedExtension(verdict)

(***************************************************************************)
(* FileService::upload_file.                                               *)
(***************************************************************************)
\* error_response(status_code, message)
UploadError(status_code, message) ==
    [status |-> status_code, error |-> message, message |-> "", file_name |-> "",
     size |-> 0]

\* success_response(file_name, size)
UploadSuccess(file_name, size) ==
    [status |-> StatusOk, error |-> "", message |-> "File uploaded successfully",
     file_name |-> file_name, size |-> size]

\* field.file_name().unwrap_or("").to_string()
FileNameOf(f) == IF f.file_name = <<>> THEN "" ELSE f.file_name[1]

\* the extension upload_file looks the file type up by
UploadExtension(file_name) ==
    IF EndsWith(file_name, ".tar.gz") THEN "tar.gz"
    ELSE ToLower(LastSegment(file_name))

\* upload_file ends with a response
Respond(response) ==
    /\ uresp' = response
    /\ upc' = "done"

\* multipart.next_field(): the first field, none, or a parse error
NextField ==
    /\ upc = "next_field"
    /\ \E parsed \in BOOLEAN :
        IF ~parsed
        THEN Respond(UploadError(StatusBadRequest, "Failed to parse multipart data"))
        ELSE IF field = <<>>
        THEN Respond(UploadError(StatusBadRequest, "No file provided"))
        ELSE /\ upc' = "resolve"
             /\ UNCHANGED uresp
    /\ UNCHANGED <<s3, objects, validatorVars, retrievalVars>>

\* the file name, its extension and find_file_type_by_extension
ResolveFileType ==
    /\ upc = "resolve"
    /\ LET found == FindFileTypeByExtension(file_types,
                                            UploadExtension(FileNameOf(field[1])))
       IN  IF found = {}
           THEN /\ Respond(UploadError(StatusUnsupportedMediaType,
                                       "Unsupported file extension"))
                /\ UNCHANGED file_type_name
           ELSE /\ \E file_type \in found : file_type_name' = file_type.name
                /\ upc' = "validate"
                /\ UNCHANGED uresp
    /\ UNCHANGED <<s3, objects, file_types, field, chunks_read, total_bytes, buffer,
                   verdict, retrievalVars>>

\* the arm answering every validation failure with 400 and one message
RejectInvalidAsBadRequest ==
    /\ upc = "returned"
    /\ ~verdict.ok
    /\ Respond(UploadError(StatusBadRequest, "Invalid file"))
    /\ UNCHANGED <<s3, objects, validatorVars, retrievalVars>>

\* the Err(validation_error) arm
RejectInvalid ==
    /\ upc = "returned"
    /\ ~verdict.ok
    /\ Respond(UploadError(verdict.code, verdict.message))
    /\ UNCHANGED <<s3, objects, validatorVars, retrievalVars>>

\* put_object with an empty body instead of the data
PutObjectEmptyBody(key, data) ==
    /\ s3' = s3 \cup {key}
    /\ objects' = [k \in s3 \cup {key} |-> IF k = key THEN <<>> ELSE objects[k]]

\* S3Client::upload_file: put_object under the key
PutObject(key, data) ==
    /\ s3' = s3 \cup {key}
    /\ objects' = [k \in s3 \cup {key} |-> IF k = key THEN data ELSE objects[k]]

\* the Ok(buffer) arm: the put and the response for its outcome
StoreUpload ==
    /\ upc = "returned"
    /\ verdict.ok
    /\ LET file_name == FileNameOf(field[1])
       IN  \/ /\ PutObject(file_name, verdict.bytes)
              /\ Respond(UploadSuccess(file_name, Len(verdict.bytes)))
           \/ /\ Respond(UploadError(StatusInternalError,
                                     "Failed to upload file to S3"))
              /\ UNCHANGED <<s3, objects>>
    /\ UNCHANGED <<validatorVars, retrievalVars>>

\* the registries an upload can meet: the built-in types and what callers of
\* register_file_type added
Registries ==
    { DefaultTypes,
      RegisterFileType(DefaultTypes, TarGzType),
      RegisterFileType(DefaultTypes, GzType),
      RegisterFileType(RegisterFileType(DefaultTypes, TarGzType), GzType) }

\* an upload request arrives, with any field or none, at an empty bucket
UploadInit ==
    /\ s3 = {}
    /\ objects = [k \in s3 |-> <<>>]
    /\ NoRetrieval
    /\ NoHealthCheck
    /\ file_types \in Registries
    /\ field \in {<<>>} \cup {<<f>> : f \in Fields}
    /\ file_type_name = ""
    /\ upc = "next_field"
    /\ chunks_read = 0
    /\ total_bytes = 0
    /\ buffer = <<>>
    /\ verdict = NoVerdict
    /\ uresp = NoUploadResponse

UploadNext ==
    \/ NextField
    \/ ResolveFileType
    \/ ValidateChecks
    \/ ValidateChunk
    \/ ValidateEnd
    \/ RejectInvalid
    \/ StoreUpload

UploadSpec == UploadInit /\ [][UploadNext]_vars

(***************************************************************************)
(* Properties of upload_file.                                              *)
(***************************************************************************)
\* upload_file has looked the file type of its field up
Resolved ==
    /\ field # <<>>
    /\ \/ upc \in {"validate", "chunk", "returned"}
       \/ /\ upc = "done"
          /\ uresp.error \notin {"Failed to parse multipart data", "No file provided"}

\* C17: tar.gz is one extension, distinct from gz: an upload of a file named
\* *.tar.gz resolves to a file type exactly when a registered type lists
\* tar.gz, then to such a type (never to one that lists only gz), and passes
\* that type's extension check in validate_file.
C17_TarGzIsOneExtension ==
    (Resolved /\ EndsWith(FileNameOf(field[1]), ".tar.gz")) =>
        IF \E t \in file_types : Lists(t, "tar.gz")
        THEN /\ file_type_name # ""
             /\ Lists(FileTypeOf(file_type_name), "tar.gz")
             /\ ~IsUnsupportedExtension(verdict)
        ELSE /\ upc = "done"
             /\ uresp = UploadError(415, "Unsupported file extension")

\* validate_file returned an error
ValidationFailed == ~verdict.ok /\ verdict.code # 0

\* C18: when validate_file fails, upload_file puts nothing in the bucket and
\* its response carries the status code and the message of the validation
\* error, unchanged.
C18_RejectionPassedThrough ==
    ValidationFailed =>
        /\ s3 = {}
        /\ DOMAIN objects = {}
        /\ upc \in {"returned", "done"}
        /\ upc = "done" =>
              /\ uresp.status = verdict.code
              /\ uresp.error = verdict.message
              /\ uresp.file_name = ""

\* an upload went over the size limit in validate_file and has been answered
C18_Witness ==
    /\ upc = "done"
    /\ ValidationFailed
    /\ verdict.code = 413
    /\ uresp.status = 413

\* C19: after a successful upload the bucket holds, under the field's
\* original filename, exactly the bytes of the field's chunks in arrival
\* order, and the response reports that filename and that number of bytes.
C19_StoredBytesAreTheStream ==
    (upc = "done" /\ uresp.status = 200) =>
        /\ field # <<>>
        /\ field[1].file_name # <<>>
        /\ LET key == field[1].file_name[1]
               bytes == Concat(field[1].stream)
           IN  /\ key \in s3
               /\ objects[key] = bytes
               /\ uresp.file_name = key
               /\ uresp.size = Len(bytes)
               /\ chunks_read = Len(field[1].stream)

\* an upload of two non-empty chunks has succeeded
C19_Witness ==
    /\ upc = "done"
    /\ uresp.status = 200
    /\ Len(field[1].stream) = 2
    /\ \A i \in 1..2 : Len(field[1].stream[i]) > 0
    /\ uresp.size > Len(field[1].stream[1])

(***************************************************************************)
(* download_and_extract_zip called on any archive.                         *)
(***************************************************************************)
\* the call download_and_extract_zip(key, "./competitions/demo") by request 1,
\* the bucket holding the archive, on an empty disk
ExtractInit ==
    /\ \E key \in HostileKeys \cup {"demo.zip"} :
          /\ s3 = {key}
          /\ rkey = [r \in Requests |-> IF r = 1 THEN key ELSE ""]
    /\ objects = [k \in s3 |-> ArchiveBytesOf(k)]
    /\ NoUpload
    /\ NoHealthCheck
    /\ dirs = {}
    /\ fileset = {}
    /\ tempIno = [p \in TempPaths |-> 0]
    /\ inode = [r \in Requests |-> "none"]
    /\ cache = [k \in CacheKeys |-> NoEntry]
    /\ lastSet = [k \in CacheKeys |-> ""]
    /\ dropped = {}
    /\ faults = 0
    /\ pc = [r \in Requests |-> IF r = 1 THEN "zip_download" ELSE "idle"]
    /\ rname = [r \in Requests |-> IF r = 1 THEN "demo" ELSE ""]
    /\ hWrite = [r \in Requests |-> 0]
    /\ hRead = [r \in Requests |-> 0]
    /\ idx = [r \in Requests |-> 0]
    /\ files = [r \in Requests |-> <<>>]
    /\ resp = [r \in Requests |-> NoResponse]
    /\ hist = [r \in Requests |-> NoHistory]

ExtractNext ==
    \/ ZipDownload(1)
    \/ ZipMkdir(1)
    \/ ZipCreate(1)
    \/ ZipWrite(1)
    \/ ZipOpen(1)
    \/ ZipRead(1)
    \/ ZipEntry(1)
    \/ ZipRemove(1)

ExtractSpec == ExtractInit /\ [][ExtractNext]_vars

\* the components of a path, split at the separator
RECURSIVE SplitFrom(_, _, _)
SplitFrom(path, i, cur) ==
    IF i > Len(path) THEN <<cur>>
    ELSE IF SubSeq(path, i, i) = "/" THEN <<cur>> \o SplitFrom(path, i + 1, "")
    ELSE SplitFrom(path, i + 1, cur \o SubSeq(path, i, i))
Components(path) == SplitFrom(path, 1, "")

\* the path starts at the root
IsAbsolute(path) == Len(path) > 0 /\ SubSeq(path, 1, 1) = "/"

\* the components with "." dropped and each ".." taking back the component
\* before it; a ".." with nothing to take back stays
RECURSIVE ResolveFrom(_, _, _)
ResolveFrom(comps, i, acc) ==
    IF i > Len(comps) THEN acc
    ELSE IF comps[i] \in {"", "."} THEN ResolveFrom(comps, i + 1, acc)
    ELSE IF comps[i] = ".."
    THEN IF acc # <<>> /\ acc[Len(acc)] # ".."
         THEN ResolveFrom(comps, i + 1, SubSeq(acc, 1, Len(acc) - 1))
         ELSE ResolveFrom(comps, i + 1, Append(acc, ".."))
    ELSE ResolveFrom(comps, i + 1, Append(acc, comps[i]))
Resolve(path) == ResolveFrom(Components(path), 1, <<>>)

\* the resolved path is the directory or lies below it
Inside(path, dir) ==
    /\ IsAbsolute(path) = IsAbsolute(dir)
    /\ Len(Resolve(path)) >= Len(Resolve(dir))
    /\ SubSeq(Resolve(path), 1, Len(Resolve(dir))) = Resolve(dir)

\* C20: whatever names the entries of the archive carry, every directory and
\* file zip extraction creates or writes resolves to a path inside the output
\* directory.
C20_ExtractionStaysInside ==
    /\ \A d \in dirs : Inside(d, OutputDir(rname[1]))
    /\ \A f \in fileset : Inside(f, OutputDir(rname[1]))
    /\ \A p \in TempPaths : tempIno[p] # 0 => Inside(p, OutputDir(rname[1]))

\* an archive with a directory entry and a file entry that both name paths
\* above the output directory has been extracted, and both were created
C20_Witness ==
    /\ rkey[1] = "dotdot.zip"
    /\ pc[1] = "cache_store"
    /\ "./competitions/demo/etc" \in dirs
    /\ "./competitions/demo/etc/passwd" \in fileset
    /\ Len(files[1]) = 1

(***************************************************************************)
(* view_codebase_handler called with any name the URL can carry.           *)
(***************************************************************************)
\* Path<String> percent-decodes the segment, so a name may hold separators
\* and dot components
UntrustedNames == {"demo", "../demo", "..", "a/../b"}

UntrustedTempPaths ==
    {ZipTempPath(OutputDir(n)) : n \in UntrustedNames}
        \cup {TarTempPath(OutputDir(n)) : n \in UntrustedNames}

UntrustedCacheKeys == {FileCacheKey(n) : n \in UntrustedNames}

\* the directory bundles are extracted below
CompetitionsDir == "./competitions"

\* one request; the bucket holds the zip archives, the tar.gz archives or
\* nothing, and the disk may hold a directory left by an earlier run
UntrustedInit ==
    /\ s3 \in { {n \o ZipSuffix : n \in UntrustedNames},
                {n \o TarGzSuffix : n \in UntrustedNames},
                {} }
    /\ objects = [k \in s3 |-> ArchiveBytesOf(k)]
    /\ NoUpload
    /\ NoHealthCheck
    /\ dirs \in {{}} \cup {{OutputDir(n)} : n \in UntrustedNames}
    /\ fileset = {}
    /\ tempIno = [p \in UntrustedTempPaths |-> 0]
    /\ inode = [r \in Requests |-> "none"]
    /\ cache = [k \in UntrustedCacheKeys |-> NoEntry]
    /\ lastSet = [k \in UntrustedCacheKeys |-> ""]
    /\ dropped = {}
    /\ faults = 0
    /\ pc = [r \in Requests |-> "idle"]
    /\ rname = [r \in Requests |-> ""]
    /\ rkey = [r \in Requests |-> ""]
    /\ hWrite = [r \in Requests |-> 0]
    /\ hRead = [r \in Requests |-> 0]
    /\ idx = [r \in Requests |-> 0]
    /\ files = [r \in Requests |-> <<>>]
    /\ resp = [r \in Requests |-> NoResponse]
    /\ hist = [r \in Requests |-> NoHistory]

UntrustedNext ==
    \/ \E n \in UntrustedNames : Start(1, n)
    \/ GetCached(1)
    \/ Backfill(1)
    \/ Detect(1)
    \/ ZipDownload(1)
    \/ ZipMkdir(1)
    \/ ZipCreate(1)
    \/ ZipWrite(1)
    \/ ZipOpen(1)
    \/ ZipRead(1)
    \/ ZipEntry(1)
    \/ ZipRemove(1)
    \/ TarMkdir(1)
    \/ TarDownload(1)
    \/ TarCreate(1)
    \/ TarWrite(1)
    \/ TarRun(1)
    \/ TarRemove(1)
    \/ CacheExtracted(1)
    \/ \E k \in UntrustedCacheKeys : Expire(k)

UntrustedSpec == UntrustedInit /\ [][UntrustedNext]_vars

\* C21: whatever name the caller supplies, the output directory retrieval
\* checks, creates and extracts into resolves to a location inside the
\* competitions directory, and so does every file extraction writes.
C21_OutputDirInsideCompetitions ==
    /\ \A r \in Requests :
          Started(r) => Inside(OutputDir(rname[r]), CompetitionsDir)
    /\ \A f \in fileset : Inside(f, CompetitionsDir)
    /\ \A p \in UntrustedTempPaths :
          tempIno[p] # 0 => Inside(p, CompetitionsDir)

\* the sequences that keep some of the entries of paths, in their order
SubSequences(paths) == {Pick(paths, keep, 1) : keep \in SUBSET (1..Len(paths))}

\* request r is in the entry loop and this step is one iteration of it
EntryStep(r) == pc[r] = "zip_entry" /\ idx'[r] = idx[r] + 1

\* C22: one iteration of the zip entry loop appends the entry's resolved path
\* to the result exactly when the entry is a file that was read and written
\* without failure, and changes nothing else of the result; a directory entry
\* is never listed, and a failing entry leaves the loop running.  So the
\* result returned keeps, in stored order, some of the archive's file entries.
C22_ZipResultIsFilesWritten ==
    /\ [][\A r \in Requests : EntryStep(r) =>
            LET e == ZipEntriesOf(rkey[r])[idx[r]]
                outpath == PathJoin(OutputDir(rname[r]), MangledName(e.name))
                written == /\ ~e.isDir
                           /\ inode[hRead[r]] = "full"
                           /\ faults' = faults
                           /\ outpath \in fileset'
                           /\ inode'[hRead[r]] = "full" \/ e.size = 0
            IN  /\ files'[r] = IF written THEN Append(files[r], outpath)
                               ELSE files[r]
                /\ e.isDir /\ faults' = faults /\ inode[hRead[r]] = "full"
                      /\ outpath \notin fileset
                      => outpath \in dirs'
                /\ pc'[r] = "zip_entry"
                /\ resp'[r] = NoResponse]_vars
    /\ [](\A r \in Requests :
            pc[r] = "cache_store" /\ IsZipRequest(r) =>
               files[r] \in SubSequences(
                   FilePathsOf(OutputDir(rname[r]), ZipEntriesOf(rkey[r]))))

\* an archive of a directory and two files was extracted: the directory was
\* created and is not listed, the first file failed and was skipped, and the
\* second file is the result
C22_Witness ==
    /\ rkey[1] = "nested.zip"
    /\ pc[1] = "cache_store"
    /\ "./competitions/demo/a/up" \in dirs
    /\ "./competitions/demo/a/up/f" \notin fileset
    /\ files[1] = <<"./competitions/demo/a/up/g">>
    /\ faults = 1

IsTarRequest(q) == EndsWith(rkey[q], ".tar.gz")

\* the request ended because tar could not be launched or exited non-zero
TarFailed(q) == pc[q] = "done" /\ hist[q].stage \in {"launch", "exit"}

TickSeconds == CACHE_EXPIRATION \div 2

\* get_cached_health_check_status: the cached message as an Option; a failed
\* connection, a failed GET and an absent key are all Err to the caller
GetCachedHealthCheckStatus ==
    IF "Redis" \in up THEN Get(cache, HealthKey) ELSE <<>>

\* the arm answering with the message of all services, whatever is cached
CachedStatusOfAll(cached) == HealthStatus(StatusOk, SuccessMessage("All"))

\* the Ok(cached_status) arm: the cached message with 200
CachedStatus(cached) == HealthStatus(StatusOk, cached)

\* a health check of scope t arrives and looks the status up in the cache
PerformHealthCheck(t) ==
    /\ hpc = "idle"
    /\ check_type' = t
    /\ probed' = <<>>
    /\ LET cached == GetCachedHealthCheckStatus
       IN  IF cached # <<>>
           THEN /\ hresp' = CachedStatus(cached[1])
                /\ hhist' = [NoHealthHistory EXCEPT !.hit = TRUE,
                                                    !.readValue = cached[1]]
                /\ hpc' = "done"
           ELSE /\ hresp' = NoStatus
                /\ hhist' = NoHealthHistory
                /\ hpc' = "probing"
    /\ UNCHANGED <<fileVars, cacheVars, up, age>>

\* check_health carrying on to the cache write when its last probe fails
AfterProbeIgnoreLast(ok, last) ==
    IF last THEN "caching" ELSE IF ~ok THEN "done" ELSE "probing"

\* where check_health goes after a probe: ? returns on the first Err, and
\* the last Ok ends the sequence
AfterProbe(ok, last) ==
    IF ~ok THEN "done" ELSE IF last THEN "caching" ELSE "probing"

\* RedisClient::test_connection: SET test_key test_value, then GET test_key
TestConnectionRedis(c) ==
    [c EXCEPT ![TestKey] =
        [present |-> TRUE, value |-> "test_value", ttl |-> 0, writer |-> 0]]

\* check_health: the next test_connection call of the scope
Probe ==
    /\ hpc = "probing"
    /\ LET d == ProbeOrder(check_type)[Len(probed) + 1]
           ok == d \in up
           last == Len(probed) + 1 = Len(ProbeOrder(check_type))
       IN  /\ probed' = Append(probed, [dep |-> d, ok |-> ok])
           /\ age' = IF ok THEN [age EXCEPT ![d] = 0] ELSE age
           /\ cache' = IF ok /\ d = "Redis" THEN TestConnectionRedis(cache)
                       ELSE cache
           /\ hpc' = AfterProbe(ok, last)
           /\ hresp' = IF ok THEN hresp
                       ELSE HealthStatus(StatusInternalError, FailureMessage(d))
    /\ UNCHANGED <<fileVars, lastSet, dropped, up, check_type, hhist>>

\* the Ok(_) arm of check_health: the success status is cached, and an Err of
\* cache_health_check_status is the response
CacheHealthCheckStatus ==
    /\ hpc = "caching"
    /\ LET message == SuccessMessage(check_type)
       IN  IF "Redis" \in up
           THEN /\ cache' = SetEx(cache, HealthKey, message, CACHE_EXPIRATION, 0)
                /\ lastSet' = [lastSet EXCEPT ![HealthKey] = message]
                /\ hhist' = [hhist EXCEPT !.setOk = TRUE,
                                          !.setValue = cache'[HealthKey].value,
                                          !.setTtl = cache'[HealthKey].ttl]
                /\ hresp' = HealthStatus(StatusOk, message)
           ELSE /\ hresp' = HealthStatus(StatusInternalError, CacheFailureMessage)
                /\ UNCHANGED <<cache, lastSet, hhist>>
    /\ hpc' = "done"
    /\ UNCHANGED <<fileVars, dropped, up, check_type, probed, age>>

\* the response is sent and the handler returns
HealthReturn ==
    /\ hpc = "done"
    /\ hpc' = "idle"
    /\ check_type' = ""
    /\ probed' = <<>>
    /\ hresp' = NoStatus
    /\ hhist' = NoHealthHistory
    /\ UNCHANGED <<fileVars, cacheVars, up, age>>

\* a dependency stops answering
GoDown(d) ==
    /\ d \in up
    /\ up' = up \ {d}
    /\ UNCHANGED <<fileVars, cacheVars, hpc, check_type, probed, hresp, hhist, age>>

\* a dependency answers again
ComeUp(d) ==
    /\ d \notin up
    /\ up' = up \cup {d}
    /\ UNCHANGED <<fileVars, cacheVars, hpc, check_type, probed, hresp, hhist, age>>

\* TickSeconds pass between two health checks: the cached status comes closer
\* to its expiry or expires, and the last passed probes grow older
Tick ==
    /\ hpc = "idle"
    /\ LET e == cache[HealthKey]
       IN  IF e.present /\ e.ttl > TickSeconds
           THEN /\ cache' = [cache EXCEPT ![HealthKey].ttl = @ - TickSeconds]
                /\ UNCHANGED dropped
           ELSE IF e.present
           THEN /\ cache' = [cache EXCEPT ![HealthKey] = NoEntry]
                /\ dropped' = dropped \cup {HealthKey}
           ELSE UNCHANGED <<cache, dropped>>
    /\ age' = [d \in Dependencies |->
                 IF age[d] = Stale \/ age[d] + TickSeconds >= CACHE_EXPIRATION
                 THEN Stale ELSE age[d] + TickSeconds]
    /\ UNCHANGED <<fileVars, lastSet, up, hpc, check_type, probed, hresp, hhist>>

\* the service started with an empty cache, the bucket holding the archives
HealthInit ==
    /\ s3 = S3Keys
    /\ objects = [k \in s3 |-> ArchiveBytesOf(k)]
    /\ NoUpload
    /\ NoHealthCheck
    /\ dirs = {}
    /\ fileset = {}
    /\ tempIno = [p \in TempPaths |-> 0]
    /\ inode = [r \in Requests |-> "none"]
    /\ cache = [k \in HealthKeys |-> NoEntry]
    /\ lastSet = [k \in HealthKeys |-> ""]
    /\ dropped = {}
    /\ faults = 0
    /\ pc = [r \in Requests |-> "idle"]
    /\ rname = [r \in Requests |-> ""]
    /\ rkey = [r \in Requests |-> ""]
    /\ hWrite = [r \in Requests |-> 0]
    /\ hRead = [r \in Requests |-> 0]
    /\ idx = [r \in Requests |-> 0]
    /\ files = [r \in Requests |-> <<>>]
    /\ resp = [r \in Requests |-> NoResponse]
    /\ hist = [r \in Requests |-> NoHistory]

HealthNext ==
    \/ \E t \in CheckTypes : PerformHealthCheck(t)
    \/ Probe
    \/ CacheHealthCheckStatus
    \/ HealthReturn
    \/ \E d \in Dependencies : GoDown(d)
    \/ \E d \in Dependencies : ComeUp(d)
    \/ Tick

HealthSpec == HealthInit /\ [][HealthNext]_vars

(***************************************************************************)
(* Properties of the health check.                                         *)
(***************************************************************************)
\* a health check arrives in this step
CheckArrives == hpc = "idle" /\ hpc' # "idle"

\* the step answers from the cache: success, the cached message, no probe
ServedFromCache ==
    /\ hpc' = "done"
    /\ hresp' = HealthStatus(StatusOk, cache[HealthKey].value)
    /\ probed' = <<>>
    /\ age' = age
    /\ cache' = cache

\* C24 as stated: a health check of any scope that arrives while the sentinel
\* key holds an unexpired value answers with success and the cached message,
\* and runs no probe.
C24_HeldValueServed ==
    [][CheckArrives /\ cache[HealthKey].present => ServedFromCache]_vars

\* C24: a health check of any scope that arrives while the sentinel key holds
\* an unexpired value and Redis answers the read returns success with the
\* cached message verbatim and runs no probe; probes only run for a check
\* whose read returned nothing.
C24_ReadValueServed ==
    /\ [][CheckArrives /\ cache[HealthKey].present /\ "Redis" \in up
             => ServedFromCache]_vars
    /\ [](hpc = "done" /\ hhist.hit =>
             /\ hresp = HealthStatus(StatusOk, hhist.readValue)
             /\ probed = <<>>)
    /\ [](probed # <<>> => ~hhist.hit)

\* a check of all services was answered from the entry a check of S3 alone
\* had stored, without a probe
C24_Witness ==
    /\ hpc = "done"
    /\ check_type = "All"
    /\ hhist.hit
    /\ hresp = HealthStatus(StatusOk, "S3 is healthy")
    /\ probed = <<>>

\* the last probe the health check ran failed
ProbeFailed == probed # <<>> /\ ~probed[Len(probed)].ok

\* every probe of the scope has run and passed
AllProbesPassed ==
    /\ Len(probed) = Len(ProbeOrder(check_type))
    /\ probed # <<>>
    /\ \A i \in 1..Len(probed) : probed[i].ok

\* C25: a health check one of whose probes failed answers with the failure
\* status and the message naming the dependency whose probe failed, and has
\* not written the sentinel key; a check that arrives while the key holds
\* nothing runs its probes.
C25_FailureNotCached ==
    /\ [](ProbeFailed =>
             /\ hpc = "done"
             /\ hresp = HealthStatus(StatusInternalError,
                                     FailureMessage(probed[Len(probed)].dep))
             /\ ~hhist.setOk)
    /\ [][hpc = "probing" /\ ProbeFailed' =>
             /\ cache'[HealthKey] = cache[HealthKey]
             /\ lastSet' = lastSet]_vars
    /\ [][CheckArrives /\ ~cache[HealthKey].present =>
             hpc' = "probing" /\ probed' = <<>>]_vars

\* a check of all services failed at its last probe: the failure names Redis
\* and the sentinel key holds nothing
C25_Witness ==
    /\ hpc = "done"
    /\ check_type = "All"
    /\ Len(probed) = 3
    /\ ProbeFailed
    /\ hresp.message = "Redis Health Check Failed: connection refused"
    /\ ~cache[HealthKey].present

\* C26: a health check whose probes all passed answers with success and the
\* success message of its scope, whether or not the cache write succeeded.
C26_WriteFailureStillSuccess ==
    hpc = "done" /\ AllProbesPassed =>
        hresp = HealthStatus(StatusOk, SuccessMessage(check_type))

\* C27: a check of all services probes S3, then PostgreSQL, then Redis; a
\* failed probe is the last probe of the check, and the failure reported is
\* that of the dependency whose probe failed.
C27_ProbesInOrderStopAtFailure ==
    check_type = "All" =>
        /\ Len(probed) <= 3
        /\ \A i \in 1..Len(probed) :
              /\ probed[i].dep = <<"S3", "PostgreSQL", "Redis">>[i]
              /\ i < Len(probed) => probed[i].ok
        /\ ProbeFailed =>
              /\ hpc = "done"
              /\ hresp = HealthStatus(StatusInternalError,
                                      FailureMessage(probed[Len(probed)].dep))

\* a check of all services stopped at the failed PostgreSQL probe while Redis
\* was down as well: Redis was not probed and PostgreSQL is the one reported
C27_Witness ==
    /\ check_type = "All"
    /\ hpc = "done"
    /\ Len(probed) = 2
    /\ ~probed[2].ok
    /\ "Redis" \notin up
    /\ hresp.message = "PostgreSQL Health Check Failed: connection refused"

\* C28: the value a health check stores under the sentinel key is one fixed
\* message whatever its scope, with a TTL of 60 seconds, and a check whose
\* probes ran answers with success only once the value is stored.
C28_OneMessageStored ==
    /\ hhist.setOk =>
          /\ hhist.setValue = SuccessMessage("All")
          /\ hhist.setTtl = 60
    /\ hpc = "done" /\ hresp.status = StatusOk /\ ~hhist.hit => hhist.setOk

\* the dependencies a scope covers
DependenciesOf(t) == {ProbeOrder(t)[i] : i \in 1..Len(ProbeOrder(t))}

\* C30: a health check that answers with success had every dependency of its
\* scope pass a probe within the last 60 seconds.
C30_SuccessMeansProbedRecently ==
    hpc = "done" /\ hresp.status = StatusOk =>
        \A d \in DependenciesOf(check_type) : age[d] # Stale

(***************************************************************************)
(* The three handlers side by side: an upload, a retrieval and health      *)
(* checks against one bucket and one Redis.                                *)
(***************************************************************************)
\* the uploads of demo.zip: one that passes validation and one that does not
ServiceFields ==
    { [file_name |-> <<"demo.zip">>, content_type |-> "application/zip",
       stream |-> <<ZipMagic \o <<0>>>>],
      [file_name |-> <<"demo.zip">>, content_type |-> "application/zip",
       stream |-> <<<<0, 1>>>>] }

ServiceCacheKeys == CacheKeys \cup HealthKeys

\* the health checks that probe the bucket
ServiceCheckTypes == {"All", "S3"}

\* an upload has arrived; the bucket holds any of the archives, the disk may
\* hold the directory of an earlier extraction, the cache is empty
ServiceInit ==
    /\ s3 \in SUBSET S3Keys
    /\ objects = [k \in s3 |-> ArchiveBytesOf(k)]
    /\ file_types = DefaultTypes
    /\ field \in {<<f>> : f \in ServiceFields}
    /\ file_type_name = ""
    /\ upc = "next_field"
    /\ chunks_read = 0
    /\ total_bytes = 0
    /\ buffer = <<>>
    /\ verdict = NoVerdict
    /\ uresp = NoUploadResponse
    /\ NoHealthCheck
    /\ dirs \in {{}, {OutputDir(n) : n \in Names}}
    /\ fileset = {}
    /\ tempIno = [p \in TempPaths |-> 0]
    /\ inode = [r \in Requests |-> "none"]
    /\ cache = [k \in ServiceCacheKeys |-> NoEntry]
    /\ lastSet = [k \in ServiceCacheKeys |-> ""]
    /\ dropped = {}
    /\ faults = 0
    /\ pc = [r \in Requests |-> "idle"]
    /\ rname = [r \in Requests |-> ""]
    /\ rkey = [r \in Requests |-> ""]
    /\ hWrite = [r \in Requests |-> 0]
    /\ hRead = [r \in Requests |-> 0]
    /\ idx = [r \in Requests |-> 0]
    /\ files = [r \in Requests |-> <<>>]
    /\ resp = [r \in Requests |-> NoResponse]
    /\ hist = [r \in Requests |-> NoHistory]

ServiceNext ==
    \/ NextField
    \/ ResolveFileType
    \/ ValidateChecks
    \/ ValidateChunk
    \/ ValidateEnd
    \/ RejectInvalid
    \/ StoreUpload
    \/ \E n \in Names : Start(1, n)
    \/ GetCached(1)
    \/ Backfill(1)
    \/ Detect(1)
    \/ ZipDownload(1)
    \/ ZipMkdir(1)
    \/ ZipCreate(1)
    \/ ZipWrite(1)
    \/ ZipOpen(1)
    \/ ZipRead(1)
    \/ ZipEntry(1)
    \/ ZipRemove(1)
    \/ TarMkdir(1)
    \/ TarDownload(1)
    \/ TarCreate(1)
    \/ TarWrite(1)
    \/ TarRun(1)
    \/ TarRemove(1)
    \/ CacheExtracted(1)
    \/ \E k \in CacheKeys \cup {HealthKey} : Expire(k)
    \/ \E t \in ServiceCheckTypes : PerformHealthCheck(t)
    \/ Probe
    \/ CacheHealthCheckStatus
    \/ HealthReturn

ServiceSpec == ServiceInit /\ [][ServiceNext]_vars

\* this step is the put of a validated upload under key k, answered with
\* success
UploadStores(k) ==
    /\ upc = "returned"
    /\ verdict.ok
    /\ FileNameOf(field[1]) = k
    /\ objects'[k] = verdict.bytes
    /\ uresp' = UploadSuccess(k, Len(verdict.bytes))

\* C29: no step deletes an object of the bucket, and the only step that adds
\* an object or changes the bytes of one is the put of a successful upload;
\* so whatever retrievals, health checks and cache losses follow, an uploaded
\* archive is in the bucket with the bytes that were uploaded.
C29_OnlyUploadChangesStore ==
    /\ [][/\ \A k \in s3 :
                /\ k \in s3'
                /\ objects'[k] # objects[k] => UploadStores(k)
          /\ \A k \in s3' \ s3 : UploadStores(k)]_vars
    /\ [](uresp.status = StatusOk =>
             /\ uresp.file_name \in s3
             /\ objects[uresp.file_name] = verdict.bytes)

\* demo.zip was uploaded to the empty bucket, a retrieval downloaded and
\* extracted it and cached the result, the cache entry was lost and a health
\* check probed the bucket: the archive is there with its uploaded bytes
C29_Witness ==
    /\ uresp.status = StatusOk
    /\ pc[1] = "done"
    /\ resp[1].status = StatusOk
    /\ hist[1].gets = 1
    /\ FileCacheKey("demo") \in dropped
    /\ hpc = "done"
    /\ probed # <<>>
    /\ s3 = {"demo.zip"}
    /\ objects["demo.zip"] = ZipMagic \o <<0>>

\* C31: with no local directory at the start, a retrieval answered with
\* success was preceded by an extraction of the bundle's archive that returned
\* Ok, in the same request or in an earlier one.
C31_SuccessMeansExtracted ==
    \A r \in Requests :
        pc[r] = "done" /\ resp[r].status = StatusOk =>
            \E q \in Requests : rname[q] = rname[r] /\ hist[q].extracted

\* C32: a retrieval request that has ended has sent a response, success or an
\* error, whatever its cache and object store calls returned.
C32_EndsWithResponse ==
    \A r \in Requests :
        Finished(r) => resp[r].status \in {StatusOk, StatusInternalError}

\* the chunk loop of validate_file run on a whole stream: the verdict after
\* the chunks from index i on, with total_bytes total and buffer buf so far
RECURSIVE ValidateFrom(_, _, _, _, _)
ValidateFrom(file_type, stream, i, total, buf) ==
    IF i > Len(stream) THEN OkVerdict(buf)
    ELSE LET chunk == stream[i]
         IN  IF chunk = StreamError
             THEN ErrVerdict(StatusInternalError, "Failed to read chunk")
             ELSE IF total + Len(chunk) > file_type.max_size
             THEN ErrVerdict(StatusPayloadTooLarge,
                             "File exceeds maximum allowed size of "
                                 \o ToString(file_type.max_size) \o " bytes")
             ELSE IF /\ Len(buf \o chunk) = Len(chunk)
                     /\ ~ValidateMagicNumber(file_type, buf \o chunk)
             THEN ErrVerdict(StatusUnsupportedMediaType,
                             "Invalid file format for " \o file_type.name)
             ELSE ValidateFrom(file_type, stream, i + 1, total + Len(chunk),
                               buf \o chunk)
ValidateStream(file_type, stream) == ValidateFrom(file_type, stream, 1, 0, <<>>)

\* the verdict validate_file returned for a field that passed the filename,
\* extension and content type checks is the verdict of the chunk loop
ValidateStreamAgrees ==
    Validated /\ ChecksPass =>
        verdict = ValidateStream(FileTypeOf(file_type_name), field[1].stream)

\* C33: for a file type, filename and content type that pass the checks
\* before the chunk loop, the verdict for a stream read without error is the
\* verdict for every other split of the same bytes into chunks.
C33_ChunkingDoesNotMatter ==
    Validated /\ ChecksPass /\ ReadsOk(field[1].stream, Len(field[1].stream)) =>
        \A other \in Streams :
            /\ ReadsOk(other, Len(other))
            /\ Concat(other) = Concat(field[1].stream)
            => ValidateStream(FileTypeOf(file_type_name), other) = verdict

\* C34: for a file type with at least one magic number, the buffer
\* validate_file returns as Ok begins with one of its magic numbers, whatever
\* the stream delivered, and so does the object upload_file then stores.
C34_AcceptedIsSigned ==
    /\ ( /\ upc \in {"returned", "done"}
         /\ verdict.ok
         /\ FileTypeOf(file_type_name).magic_numbers # <<>> ) =>
            Signed(FileTypeOf(file_type_name), verdict.bytes)
    /\ ( /\ uresp.status = StatusOk
         /\ FileTypeOf(file_type_name).magic_numbers # <<>> ) =>
            Signed(FileTypeOf(file_type_name), objects[uresp.file_name])

\* C35: when zip extraction returns Ok, every path of the result names a
\* file that exists under the output directory at that moment, whatever the
\* entries of the archive are called.
C35_ResultFilesExist ==
    pc[1] = "cache_store" /\ IsZipRequest(1) =>
        \A i \in 1..Len(files[1]) :
            /\ files[1][i] \in fileset
            /\ Inside(files[1][i], OutputDir(rname[1]))

\* the bundle name N of an upload named N.<ext>
UploadedAs(file_name) ==
    SubSeq(file_name, 1, Len(file_name) - Len(LastSegment(file_name)) - 1)

\* C36: an archive that upload accepted as a ZIP under the name N.<ext>, the
\* extension in any letter case, lies in the bucket under one of the keys
\* detection probes for bundle N, so that retrieving N does not end NotFound.
C36_UploadedZipIsDetected ==
    /\ uresp.status = StatusOk
    /\ file_type_name = "ZIP"
    /\ Len(LastSegment(uresp.file_name)) < Len(uresp.file_name)
    => \E i \in 1..Len(Candidates(UploadedAs(uresp.file_name))) :
          Candidates(UploadedAs(uresp.file_name))[i] \in s3

====
